---------------------------- MODULE Spec2Model ----------------------------
(***************************************************************************)
(* Wallet trading-volume pipeline of the repository:                       *)
(*   - the paginated history fetch (get_helius_transaction_history of the  *)
(*     CLI script, get_helius_transactions of the web server),             *)
(*   - the normalizers (parse_helius_transactions, parse_transfers,        *)
(*     parse_token_transfers),                                             *)
(*   - the per-asset, per-window aggregation (analyze_wallet_volume,       *)
(*     get_volume_data) with its valuation (get_jupiter_prices),           *)
(*   - the price chain of the balance script (get_prices).                 *)
(*                                                                         *)
(* Amounts are exact integers counted in 1e-9 of a unit, so that a native  *)
(* amount of n lamports, which the code divides by 1e9, is the integer n.  *)
(* Times are seconds since the epoch.                                      *)
(***************************************************************************)
EXTENDS Integers, Sequences, FiniteSets, TLC

VARIABLES
    \* ---- history fetch ----
    caller,            \* "cli" (wallet_trading_volume.py) or "web" (server.py)
    HELIUS_API_KEY,    \* whether the API key is configured
    source,            \* what the indexing source answers to the 1st, 2nd, ... request
    fpc,               \* position of the fetch: "start", "loop", "done", "raised"
    before_sig,        \* the pagination cursor
    all_transactions,  \* the accumulated records
    requests,          \* the cursor carried by each request issued, in order
    sleeps,            \* the delays slept (milliseconds), in order
    \* ---- normalizers ----
    parser,            \* "helius_cli", "helius_web" or "rpc"
    raw_records,       \* the Enriched records handed to a Helius parser
    raw_tx,            \* the Minimal record handed to parse_token_transfers
    npc,               \* position of the normalizer: "idle", "input", "done"
    result,            \* what the parser gave: [raised, transfers]
    \* ---- aggregation ----
    impl,              \* "cli" (analyze_wallet_volume) or "web" (get_volume_data)
    vol_records,       \* the fetched Enriched records of the run
    all_transfers,     \* the transfers the parser extracted from them
    vpc,               \* "parse", "fold", "prices", "usd", "done", "raised"
    folded,            \* how many transfers the fold loop has processed
    volume_data,       \* asset -> window -> bucket
    prices,            \* asset -> unit price, for the assets quoted
    price_calls,       \* the id lists get_jupiter_prices was called with
    price_requests,    \* the id lists sent to the price feed
    sorted_tokens,     \* the assets in the order they are presented
    \* ---- price chain ----
    mint_addresses,    \* the batch handed to get_prices
    ppc,               \* "primary", "secondary", "tertiary", "done", "raised"
    chain_prices,      \* `prices` of get_prices: the quotes gathered so far
    consulted,         \* the sources consulted, in order, with what they gave
    chain_result,      \* the mapping get_prices returned
    \* ---- public-RPC path of analyze_wallet_volume ----
    apc,               \* "signatures", "next", "attempt", "parse", "done", "raised"
    signatures,        \* what get_signatures returned
    sig_i,             \* the position of the `for sig_info in signatures` loop
    attempt,           \* `attempt` of get_transaction, counted from 0
    cur_tx,            \* `tx`: what get_transaction returned for the signature
    rpc_requests,      \* the answers to the requests of the get_transaction call
    rpc_issued,        \* how many RPC requests the run has issued
    parsed,            \* how many fetched records the run has normalized
    processed,         \* `processed`
    successful         \* `successful`

fetchVars == <<caller, HELIUS_API_KEY, source, fpc, before_sig, all_transactions,
               requests, sleeps>>

normVars == <<parser, raw_records, raw_tx, npc, result>>

volVars == <<impl, vol_records, all_transfers, vpc, folded, volume_data, prices,
             price_calls, price_requests, sorted_tokens>>

priceVars == <<mint_addresses, ppc, chain_prices, consulted, chain_result>>

rpcVars == <<apc, signatures, sig_i, attempt, cur_tx, rpc_requests, rpc_issued,
             parsed, processed, successful>>

notFetchVars == <<normVars, volVars, priceVars, rpcVars>>

notNormVars == <<fetchVars, volVars, priceVars, rpcVars>>

notVolVars == <<fetchVars, normVars, priceVars, rpcVars>>

notPriceVars == <<fetchVars, normVars, volVars, rpcVars>>

vars == <<fetchVars, normVars, volVars, priceVars, rpcVars>>

-----------------------------------------------------------------------------
(* Bounds of the model *)

\* the longest source script: answers to at most MaxPages requests are chosen
\* freely, every later request finds the history exhausted (an empty page)
MaxPages == 3

-----------------------------------------------------------------------------
(* Program constants *)

\* `len(transactions) < 100`
PAGE_LIMIT == 100

\* time.sleep(0.2) of the CLI fetch, in milliseconds
CLI_PAGE_DELAY_MS == 200

\* time.sleep(0.1) of the web fetch, in milliseconds
WEB_PAGE_DELAY_MS == 100

\* Python's None (and the falsy empty signature)
None == <<>>

-----------------------------------------------------------------------------
(* JSON values and records *)

\* a JSON value read where the code expects a number: a number, null, a
\* non-numeric string, or a missing key
Num(n) == [tag |-> "num", num |-> n]
Null == [tag |-> "null", num |-> 0]
NonNumeric == [tag |-> "str", num |-> 0]
Absent == [tag |-> "absent", num |-> 0]

\* the target address and another one
WALLET_ADDRESS == "EZ3q7RMhCEn1iVqR7VaGUq2MmREVPU98MQPexMg4U8cq"
OTHER_ADDRESS == "other"

\* the wrapped-SOL mint under which native transfers are booked
SOL_MINT == "So11111111111111111111111111111111111111112"

\* `{}`: the empty balance entry of `pre_balances.get(idx, {})`
EmptyBalance ==
    [accountIndex |-> Absent, mint |-> "", owner |-> "", uiAmount |-> Absent]

\* `{}`: the empty transaction record get_transaction returns on failure
EmptyTx ==
    [present |-> FALSE, meta |-> FALSE, err |-> FALSE, blockTime |-> 0,
     preTokenBalances |-> <<>>, postTokenBalances |-> <<>>,
     accountKeys |-> <<>>, preBalances |-> <<>>, postBalances |-> <<>>]

\* what a parser hands back: the transfers, or an exception
Returned(transfers) == [raised |-> FALSE, transfers |-> transfers]
Raised == [raised |-> TRUE, transfers |-> <<>>]

\* the normalizer is not running
IdleNormalize ==
    /\ parser = "none"
    /\ raw_records = <<>>
    /\ raw_tx = EmptyTx
    /\ npc = "idle"
    /\ result = Returned(<<>>)

\* the aggregation is not running
IdleVolume ==
    /\ impl = "cli"
    /\ vol_records = <<>>
    /\ all_transfers = <<>>
    /\ vpc = "idle"
    /\ folded = 0
    /\ volume_data = <<>>
    /\ prices = <<>>
    /\ price_calls = <<>>
    /\ price_requests = <<>>
    /\ sorted_tokens = <<>>

\* the fetch is not running
IdleFetch ==
    /\ caller = "cli"
    /\ HELIUS_API_KEY = FALSE
    /\ source = <<>>
    /\ fpc = "idle"
    /\ before_sig = None
    /\ all_transactions = <<>>
    /\ requests = <<>>
    /\ sleeps = <<>>

\* the price chain is not running
IdlePrices ==
    /\ mint_addresses = <<>>
    /\ ppc = "idle"
    /\ chain_prices = <<>>
    /\ consulted = <<>>
    /\ chain_result = <<>>

\* the public-RPC path is not running
IdleRpc ==
    /\ apc = "idle"
    /\ signatures = <<>>
    /\ sig_i = 1
    /\ attempt = 0
    /\ cur_tx = EmptyTx
    /\ rpc_requests = <<>>
    /\ rpc_issued = 0
    /\ parsed = 0
    /\ processed = 0
    /\ successful = 0

-----------------------------------------------------------------------------
(* The indexing source *)

\* page sizes the source may serve
PageSizes == {0, 1, 37, 99, PAGE_LIMIT}

\* one answer of the source: a page of `size` records whose last record
\* carries a signature or not, a non-200 status, or a transport/decode failure
Answers ==
    {[kind |-> "page", size |-> n, signed |-> s] :
        n \in PageSizes \ {0}, s \in BOOLEAN}
    \cup {[kind |-> "page", size |-> 0, signed |-> FALSE],
          [kind |-> "status", size |-> 0, signed |-> FALSE],
          [kind |-> "exception", size |-> 0, signed |-> FALSE]}

SeqsUpTo(S, n) == UNION {[1..k -> S] : k \in 0..n}

Sources == SeqsUpTo(Answers, MaxPages)

\* the answer to the n-th request: past the scripted answers the history is
\* exhausted and the source serves an empty page
AnswerAt(n) ==
    IF n <= Len(source) THEN source[n]
    ELSE [kind |-> "page", size |-> 0, signed |-> FALSE]

\* the records of the p-th page: record i carries signature <<p, i>>, the
\* last one possibly none
PageRecords(p, a) ==
    [i \in 1..a.size |->
        [signature |-> IF i = a.size /\ ~a.signed THEN None ELSE <<p, i>>]]

-----------------------------------------------------------------------------
(* get_helius_transaction_history / get_helius_transactions *)

\* a faulty variant: the loop goes on to another request after a non-200 status
OnStatusRetry == "loop"

\* `if response.status_code != 200: ... break`
OnStatusError == "done"

\* a faulty variant: no handler, the exception leaves the function
OnExceptionPropagate == "raised"

\* `except Exception as e: ... break`
OnException == "done"

\* a faulty variant: the page replaces the accumulated records
ExtendOverwrite(acc, transactions) == transactions

\* `all_transactions.extend(transactions)`
Extend(acc, transactions) == acc \o transactions

\* a faulty variant: a short page does not end the loop
IsLastPageNoLengthTest(sig, transactions) == sig = None

\* `if not before_sig or len(transactions) < 100: break`
IsLastPage(sig, transactions) ==
    sig = None \/ Len(transactions) < PAGE_LIMIT

\* a faulty variant: the cursor is taken from the first record of the page
FirstSignature(transactions) == transactions[1].signature

\* `last_tx = transactions[-1]`, `last_tx.get("signature")`
LastSignature(transactions) == transactions[Len(transactions)].signature

\* the rate-limiting sleep between two pages
PageDelay == IF caller = "cli" THEN CLI_PAGE_DELAY_MS ELSE WEB_PAGE_DELAY_MS

\* `if not HELIUS_API_KEY: return []`
HeliusNoKey ==
    /\ fpc = "start"
    /\ ~HELIUS_API_KEY
    /\ fpc' = "done"
    /\ all_transactions' = <<>>
    /\ UNCHANGED <<caller, HELIUS_API_KEY, source, before_sig, requests, sleeps>>
    /\ UNCHANGED notFetchVars

\* `all_transactions = []; before_sig = None`
HeliusStart ==
    /\ fpc = "start"
    /\ HELIUS_API_KEY
    /\ fpc' = "loop"
    /\ all_transactions' = <<>>
    /\ before_sig' = None
    /\ UNCHANGED <<caller, HELIUS_API_KEY, source, requests, sleeps>>
    /\ UNCHANGED notFetchVars

\* one round of `while True:` whose request comes back with a non-200 status
HeliusStatusError ==
    /\ fpc = "loop"
    /\ AnswerAt(Len(requests) + 1).kind = "status"
    /\ requests' = Append(requests, before_sig)
    /\ fpc' = OnStatusError
    /\ UNCHANGED <<caller, HELIUS_API_KEY, source, before_sig, all_transactions,
                   sleeps>>
    /\ UNCHANGED notFetchVars

\* one round whose request (or the decoding of its body) raises
HeliusException ==
    /\ fpc = "loop"
    /\ AnswerAt(Len(requests) + 1).kind = "exception"
    /\ requests' = Append(requests, before_sig)
    /\ fpc' = OnException
    /\ UNCHANGED <<caller, HELIUS_API_KEY, source, before_sig, all_transactions,
                   sleeps>>
    /\ UNCHANGED notFetchVars

\* one round whose page is empty: `if not transactions: break`
HeliusEmptyPage ==
    /\ fpc = "loop"
    /\ AnswerAt(Len(requests) + 1).kind = "page"
    /\ AnswerAt(Len(requests) + 1).size = 0
    /\ requests' = Append(requests, before_sig)
    /\ fpc' = "done"
    /\ UNCHANGED <<caller, HELIUS_API_KEY, source, before_sig, all_transactions,
                   sleeps>>
    /\ UNCHANGED notFetchVars

\* one round whose page holds records
HeliusPage ==
    /\ fpc = "loop"
    /\ AnswerAt(Len(requests) + 1).kind = "page"
    /\ AnswerAt(Len(requests) + 1).size > 0
    /\ LET transactions ==
               PageRecords(Len(requests) + 1, AnswerAt(Len(requests) + 1))
           sig == LastSignature(transactions)
       IN  /\ requests' = Append(requests, before_sig)
           /\ all_transactions' = Extend(all_transactions, transactions)
           /\ before_sig' = sig
           /\ IF IsLastPage(sig, transactions)
              THEN /\ fpc' = "done"
                   /\ sleeps' = sleeps
              ELSE /\ fpc' = "loop"
                   /\ sleeps' = Append(sleeps, PageDelay)
    /\ UNCHANGED <<caller, HELIUS_API_KEY, source>>
    /\ UNCHANGED notFetchVars

InitFetch ==
    /\ caller \in {"cli", "web"}
    /\ HELIUS_API_KEY \in BOOLEAN
    /\ source \in Sources
    /\ fpc = "start"
    /\ before_sig = None
    /\ all_transactions = <<>>
    /\ requests = <<>>
    /\ sleeps = <<>>
    /\ IdleNormalize
    /\ IdleVolume
    /\ IdlePrices
    /\ IdleRpc

NextFetch ==
    \/ HeliusNoKey
    \/ HeliusStart
    \/ HeliusStatusError
    \/ HeliusException
    \/ HeliusEmptyPage
    \/ HeliusPage

SpecFetch == InitFetch /\ [][NextFetch]_vars

\* the fetch is one sequential loop of a single thread: a round that can run
\* does run
FairSpecFetch == InitFetch /\ [][NextFetch]_vars /\ WF_vars(NextFetch)

-----------------------------------------------------------------------------
(* Properties of the history fetch *)

\* the records of the first n pages of the source, in order
RECURSIVE PagesConcat(_)
PagesConcat(n) ==
    IF n = 0 THEN <<>>
    ELSE PagesConcat(n - 1) \o PageRecords(n, AnswerAt(n))

\* the n-th request failed: a non-200 status or a transport/decode failure
FailedAt(n) == AnswerAt(n).kind \in {"status", "exception"}

\* the n-th answer signals exhaustion: a failure, an empty page, a page
\* shorter than PAGE_LIMIT, or a last record without a signature
ExhaustionSignal(n) ==
    ~(AnswerAt(n).kind = "page" /\ AnswerAt(n).size >= PAGE_LIMIT
      /\ AnswerAt(n).signed)

\* how many requests carried cursor c
Attempts(c) == Cardinality({i \in 1..Len(requests) : requests[i] = c})

\* the source serves pages of sizes [100, ..., 100, k] with 0 < k < 100
ShortTailSource ==
    /\ Len(source) >= 1
    /\ \A i \in 1..Len(source) : source[i].kind = "page"
    /\ \A i \in 1..(Len(source) - 1) : source[i].size = PAGE_LIMIT
    /\ source[Len(source)].size \in 1..(PAGE_LIMIT - 1)

\* the last record of every full page carries a signature
FullPagesSigned ==
    \A i \in 1..Len(source) :
        source[i].size = PAGE_LIMIT => source[i].signed

\* one request per page, none after the short page, and the result is the
\* concatenation of the pages
OneRequestPerPage ==
    /\ Len(requests) <= Len(source)
    /\ fpc = "done" =>
          /\ Len(requests) = Len(source)
          /\ all_transactions = PagesConcat(Len(source))

\* C1 as stated: for ANY source whose pages have sizes [100, ..., 100, k],
\* 0 < k < 100, the fetch issues exactly one request per page, none after
\* the short page, and returns the concatenation of all the pages.
C1_AnyShortTailSource ==
    (HELIUS_API_KEY /\ ShortTailSource) => OneRequestPerPage

\* C1 amended: the same, for the sources whose full pages each end in a
\* record that carries a signature (a full page whose last record has no
\* signature ends the fetch before the short page is requested).
C1_SignedShortTailSource ==
    (HELIUS_API_KEY /\ ShortTailSource /\ FullPagesSigned) => OneRequestPerPage

\* pages [100, 100, 37]: 3 requests, 237 records
C1_Witness ==
    /\ fpc = "done"
    /\ ShortTailSource /\ FullPagesSigned
    /\ Len(source) = 3 /\ source[3].size = 37
    /\ Len(requests) = 3
    /\ Len(all_transactions) = 237

\* C2: a failed page request (non-200 status or transport failure) is the
\* last request issued, ends the fetch at once with exactly the records of
\* the earlier pages, and never propagates to the caller.
C2_FailureStopsWithPartialResults ==
    /\ fpc # "raised"
    /\ \A n \in 1..Len(requests) :
          FailedAt(n) =>
             /\ n = Len(requests)
             /\ fpc = "done"
             /\ all_transactions = PagesConcat(n - 1)

\* two full pages fetched, the third request fails: 200 records returned
C2_Witness ==
    /\ fpc = "done"
    /\ Len(requests) = 3
    /\ FailedAt(3)
    /\ Len(all_transactions) = 2 * PAGE_LIMIT

C4_FetchTerminates ==
    /\ <>(fpc = "done")
    /\ [][(requests # <<>> /\ ExhaustionSignal(Len(requests)))
            => requests' = requests]_vars

\* every scripted page was full and signed; the next request found the
\* history exhausted and the fetch returned
C4_Witness ==
    /\ fpc = "done"
    /\ Len(source) = MaxPages
    /\ Len(requests) = MaxPages + 1
    /\ Len(all_transactions) = MaxPages * PAGE_LIMIT

-----------------------------------------------------------------------------
(* The normalizers: parse_helius_transactions, parse_transfers (web) and    *)
(* parse_token_transfers                                                    *)

\* `d.get(key, 0)`: a missing key reads as 0, a null stays a null
GetOrZero(v) == IF v.tag = "absent" THEN Num(0) ELSE v

\* float(v) raises TypeError on null and ValueError on a non-numeric string
FloatRaises(v) == v.tag \in {"null", "str"}

\* float(v) of a number
Float(v) == v.num

\* `float(...) / 1e9`: n lamports are n counts of 1e-9 SOL
LamportsToSol(n) == n

\* abs()
Abs(n) == IF n < 0 THEN 0 - n ELSE n

\* 0.001 SOL, the fee-noise threshold, in counts of 1e-9 SOL
FEE_THRESHOLD == 1000000

\* one entry of tx["tokenTransfers"] in parse_helius_transactions
HeliusTokenTransfer(acc, transfer, block_time, wallet) ==
    LET v == GetOrZero(transfer.tokenAmount)
    IN  IF acc.raised THEN acc
        ELSE IF FloatRaises(v) THEN Raised
        ELSE IF transfer.mint = "" \/ Float(v) = 0 THEN acc
        ELSE IF transfer.toUserAccount = wallet
        THEN Returned(Append(acc.transfers,
                 [mint |-> transfer.mint, change |-> Float(v),
                  block_time |-> block_time, type |-> "buy"]))
        ELSE IF transfer.fromUserAccount = wallet
        THEN Returned(Append(acc.transfers,
                 [mint |-> transfer.mint, change |-> 0 - Float(v),
                  block_time |-> block_time, type |-> "sell"]))
        ELSE acc

\* one entry of tx["nativeTransfers"] in parse_helius_transactions
HeliusNativeTransfer(acc, transfer, block_time, wallet) ==
    LET v == GetOrZero(transfer.amount)
    IN  IF acc.raised THEN acc
        ELSE IF FloatRaises(v) THEN Raised
        ELSE IF LamportsToSol(Float(v)) < FEE_THRESHOLD THEN acc
        ELSE IF transfer.toUserAccount = wallet
        THEN Returned(Append(acc.transfers,
                 [mint |-> SOL_MINT, change |-> LamportsToSol(Float(v)),
                  block_time |-> block_time, type |-> "buy"]))
        ELSE IF transfer.fromUserAccount = wallet
        THEN Returned(Append(acc.transfers,
                 [mint |-> SOL_MINT, change |-> 0 - LamportsToSol(Float(v)),
                  block_time |-> block_time, type |-> "sell"]))
        ELSE acc

\* `for transfer in token_transfers:` from entry i on
RECURSIVE HeliusTokenTransfers(_, _, _, _, _)
HeliusTokenTransfers(acc, entries, i, block_time, wallet) ==
    IF i > Len(entries) THEN acc
    ELSE HeliusTokenTransfers(
             HeliusTokenTransfer(acc, entries[i], block_time, wallet),
             entries, i + 1, block_time, wallet)

\* `for transfer in native_transfers:` from entry i on
RECURSIVE HeliusNativeTransfers(_, _, _, _, _)
HeliusNativeTransfers(acc, entries, i, block_time, wallet) ==
    IF i > Len(entries) THEN acc
    ELSE HeliusNativeTransfers(
             HeliusNativeTransfer(acc, entries[i], block_time, wallet),
             entries, i + 1, block_time, wallet)

\* `for tx in transactions:` from record i on
RECURSIVE HeliusRecords(_, _, _, _)
HeliusRecords(acc, transactions, i, wallet) ==
    IF i > Len(transactions) THEN acc
    ELSE HeliusRecords(
             HeliusNativeTransfers(
                 HeliusTokenTransfers(acc, transactions[i].tokenTransfers, 1,
                                      transactions[i].timestamp, wallet),
                 transactions[i].nativeTransfers, 1,
                 transactions[i].timestamp, wallet),
             transactions, i + 1, wallet)

\* parse_helius_transactions(transactions, wallet)
parse_helius_transactions(transactions, wallet) ==
    HeliusRecords(Returned(<<>>), transactions, 1, wallet)

\* one entry of tx["tokenTransfers"] in the web server's parse_transfers
WebTokenTransfer(acc, transfer, block_time) ==
    LET v == GetOrZero(transfer.tokenAmount)
    IN  IF acc.raised THEN acc
        ELSE IF FloatRaises(v) THEN Raised
        ELSE IF transfer.mint = "" \/ Float(v) = 0 THEN acc
        ELSE IF transfer.toUserAccount = WALLET_ADDRESS
        THEN Returned(Append(acc.transfers,
                 [mint |-> transfer.mint, amount |-> Float(v),
                  type |-> "buy", timestamp |-> block_time]))
        ELSE IF transfer.fromUserAccount = WALLET_ADDRESS
        THEN Returned(Append(acc.transfers,
                 [mint |-> transfer.mint, amount |-> Float(v),
                  type |-> "sell", timestamp |-> block_time]))
        ELSE acc

\* one entry of tx["nativeTransfers"] in the web server's parse_transfers
WebNativeTransfer(acc, transfer, block_time) ==
    LET v == GetOrZero(transfer.amount)
    IN  IF acc.raised THEN acc
        ELSE IF FloatRaises(v) THEN Raised
        ELSE IF LamportsToSol(Float(v)) < FEE_THRESHOLD THEN acc
        ELSE IF transfer.toUserAccount = WALLET_ADDRESS
        THEN Returned(Append(acc.transfers,
                 [mint |-> SOL_MINT, amount |-> LamportsToSol(Float(v)),
                  type |-> "buy", timestamp |-> block_time]))
        ELSE IF transfer.fromUserAccount = WALLET_ADDRESS
        THEN Returned(Append(acc.transfers,
                 [mint |-> SOL_MINT, amount |-> LamportsToSol(Float(v)),
                  type |-> "sell", timestamp |-> block_time]))
        ELSE acc

RECURSIVE WebTokenTransfers(_, _, _, _)
WebTokenTransfers(acc, entries, i, block_time) ==
    IF i > Len(entries) THEN acc
    ELSE WebTokenTransfers(WebTokenTransfer(acc, entries[i], block_time),
                           entries, i + 1, block_time)

RECURSIVE WebNativeTransfers(_, _, _, _)
WebNativeTransfers(acc, entries, i, block_time) ==
    IF i > Len(entries) THEN acc
    ELSE WebNativeTransfers(WebNativeTransfer(acc, entries[i], block_time),
                            entries, i + 1, block_time)

RECURSIVE WebRecords(_, _, _)
WebRecords(acc, transactions, i) ==
    IF i > Len(transactions) THEN acc
    ELSE WebRecords(
             WebNativeTransfers(
                 WebTokenTransfers(acc, transactions[i].tokenTransfers, 1,
                                   transactions[i].timestamp),
                 transactions[i].nativeTransfers, 1, transactions[i].timestamp),
             transactions, i + 1)

\* parse_transfers(transactions) of the web server
parse_transfers(transactions) == WebRecords(Returned(<<>>), transactions, 1)

\* a faulty variant: the error flag is not looked at
HasExecutionErrorIgnored(tx) == FALSE

\* `if meta.get("err"): return transfers`
HasExecutionError(tx) == tx.err

\* `{b["accountIndex"]: b for b in balances}` raises KeyError on an entry
\* without accountIndex
IndexMissing(balances) ==
    \E i \in 1..Len(balances) : balances[i].accountIndex.tag # "num"

\* the keys of that dict
Indices(balances) ==
    {balances[i].accountIndex.num : i \in 1..Len(balances)}

\* `balances_dict.get(idx, {})`: the last entry listed under idx wins
BalanceAt(balances, idx) ==
    LET hits == {i \in 1..Len(balances) : balances[i].accountIndex.num = idx}
    IN  IF hits = {} THEN EmptyBalance
        ELSE balances[CHOOSE i \in hits : \A j \in hits : j <= i]

\* `a or b` on strings
OrElse(a, b) == IF a # "" THEN a ELSE b

\* `float(entry.get("uiTokenAmount", {}).get("uiAmount") or 0)`
UiAmountRaises(entry) == entry.uiAmount.tag = "str"
UiAmount(entry) == IF entry.uiAmount.tag = "num" THEN entry.uiAmount.num ELSE 0

\* a faulty variant: the owner of the account is not compared with the wallet
RpcTokenChangeAnyOwner(acc, pre, post, block_time, wallet) ==
    LET mint == OrElse(post.mint, pre.mint)
        change == UiAmount(post) - UiAmount(pre)
    IN  IF acc.raised THEN acc
        ELSE IF mint = "" THEN acc
        ELSE IF UiAmountRaises(pre) \/ UiAmountRaises(post) THEN Raised
        ELSE IF Abs(change) > 0
        THEN Returned(Append(acc.transfers,
                 [mint |-> mint, change |-> change, block_time |-> block_time,
                  type |-> IF change > 0 THEN "buy" ELSE "sell"]))
        ELSE acc

\* the body of `for idx in all_indices:` for one index
RpcTokenChange(acc, pre, post, block_time, wallet) ==
    LET mint == OrElse(post.mint, pre.mint)
        owner == OrElse(post.owner, pre.owner)
        change == UiAmount(post) - UiAmount(pre)
    IN  IF acc.raised THEN acc
        ELSE IF mint = "" \/ owner # wallet THEN acc
        ELSE IF UiAmountRaises(pre) \/ UiAmountRaises(post) THEN Raised
        ELSE IF Abs(change) > 0
        THEN Returned(Append(acc.transfers,
                 [mint |-> mint, change |-> change, block_time |-> block_time,
                  type |-> IF change > 0 THEN "buy" ELSE "sell"]))
        ELSE acc

\* `for idx in all_indices:` over the indices left, in ascending order (the
\* order in which a Python set of small integers is iterated)
RECURSIVE RpcTokenChanges(_, _, _, _)
RpcTokenChanges(acc, tx, indices, wallet) ==
    IF indices = {} THEN acc
    ELSE LET idx == CHOOSE i \in indices : \A j \in indices : i <= j
         IN  RpcTokenChanges(
                 RpcTokenChange(acc, BalanceAt(tx.preTokenBalances, idx),
                                BalanceAt(tx.postTokenBalances, idx),
                                tx.blockTime, wallet),
                 tx, indices \ {idx}, wallet)

\* the body of `for i, key in enumerate(account_keys):` for one key
RpcSolChange(acc, tx, i, wallet) ==
    IF acc.raised THEN acc
    ELSE IF tx.accountKeys[i] = wallet /\ i <= Len(tx.preBalances)
            /\ i <= Len(tx.postBalances)
    THEN LET change_sol ==
                 LamportsToSol(tx.postBalances[i] - tx.preBalances[i])
         IN  IF Abs(change_sol) > FEE_THRESHOLD
             THEN Returned(Append(acc.transfers,
                      [mint |-> SOL_MINT, change |-> change_sol,
                       block_time |-> tx.blockTime,
                       type |-> IF change_sol > 0 THEN "buy" ELSE "sell"]))
             ELSE acc
    ELSE acc

\* `if pre_sol and post_sol and account_keys: for i, key in ...` from key i on
RECURSIVE RpcSolChanges(_, _, _, _)
RpcSolChanges(acc, tx, i, wallet) ==
    IF tx.preBalances = <<>> \/ tx.postBalances = <<>> THEN acc
    ELSE IF i > Len(tx.accountKeys) THEN acc
    ELSE RpcSolChanges(RpcSolChange(acc, tx, i, wallet), tx, i + 1, wallet)

\* parse_token_transfers(tx, wallet); the `decimals` field of a transfer,
\* which nothing reads, is left out
parse_token_transfers(tx, wallet) ==
    IF ~tx.present \/ ~tx.meta THEN Returned(<<>>)
    ELSE IF HasExecutionError(tx) THEN Returned(<<>>)
    ELSE IF IndexMissing(tx.preTokenBalances)
            \/ IndexMissing(tx.postTokenBalances) THEN Raised
    ELSE RpcSolChanges(
             RpcTokenChanges(Returned(<<>>), tx,
                 Indices(tx.preTokenBalances) \cup Indices(tx.postTokenBalances),
                 wallet),
             tx, 1, wallet)

-----------------------------------------------------------------------------
(* Inputs of the normalizers *)

\* records per list handed to a Helius parser
MaxRecords == 2

\* entries per token-balance snapshot of a Minimal record
MaxBalances == 1

\* `timedelta(days=1)` in seconds
DAY == 86400

\* the clock: datetime.now()
NOW == 100 * DAY

\* block times: three hours, two days, ten days and forty days ago
T_3H == NOW - 10800
T_2D == NOW - 2 * DAY
T_10D == NOW - 10 * DAY
T_40D == NOW - 40 * DAY

\* (from, to) of a transfer entry: to the wallet, from the wallet, unrelated
Directions ==
    {<<OTHER_ADDRESS, WALLET_ADDRESS>>, <<WALLET_ADDRESS, OTHER_ADDRESS>>,
     <<OTHER_ADDRESS, OTHER_ADDRESS>>}

TokenEntry(mint, d, v) ==
    [mint |-> mint, fromUserAccount |-> d[1], toUserAccount |-> d[2],
     tokenAmount |-> v]

NativeEntry(d, v) ==
    [fromUserAccount |-> d[1], toUserAccount |-> d[2], amount |-> v]

TokenEntries ==
    {TokenEntry("X", d, v) :
        d \in Directions,
        v \in {Num(-5), Num(0), Num(4), Num(10), Null, NonNumeric, Absent}}
    \cup {TokenEntry("", <<OTHER_ADDRESS, WALLET_ADDRESS>>, Num(10))}

NativeEntries ==
    {NativeEntry(d, v) :
        d \in Directions \ {<<OTHER_ADDRESS, OTHER_ADDRESS>>},
        v \in {Num(-2000000), Num(FEE_THRESHOLD - 1), Num(FEE_THRESHOLD),
               Num(2000000), Null, Absent}}
    \cup {NativeEntry(<<OTHER_ADDRESS, OTHER_ADDRESS>>, Num(2000000))}

EnrichedRecord(t, tokens, natives) ==
    [timestamp |-> t, tokenTransfers |-> tokens, nativeTransfers |-> natives]

\* Enriched records: one token entry, one native entry, none, a token and a
\* native entry, a malformed entry before a well-formed one, no timestamp
EnrichedRecords ==
    {EnrichedRecord(T_3H, <<e>>, <<>>) : e \in TokenEntries}
    \cup {EnrichedRecord(T_3H, <<>>, <<e>>) : e \in NativeEntries}
    \cup {EnrichedRecord(T_3H, <<>>, <<>>),
          EnrichedRecord(T_3H,
              <<TokenEntry("X", <<OTHER_ADDRESS, WALLET_ADDRESS>>, Num(10))>>,
              <<NativeEntry(<<WALLET_ADDRESS, OTHER_ADDRESS>>, Num(2000000))>>),
          EnrichedRecord(T_3H,
              <<TokenEntry("X", <<OTHER_ADDRESS, WALLET_ADDRESS>>, Null),
                TokenEntry("X", <<OTHER_ADDRESS, WALLET_ADDRESS>>, Num(10))>>,
              <<>>),
          EnrichedRecord(0,
              <<TokenEntry("X", <<OTHER_ADDRESS, WALLET_ADDRESS>>, Num(10))>>,
              <<>>)}

BalanceEntry(idx, mint, owner, ui) ==
    [accountIndex |-> idx, mint |-> mint, owner |-> owner, uiAmount |-> ui]

BalanceEntries ==
    {BalanceEntry(Num(i), "X", WALLET_ADDRESS, Num(a)) :
        i \in {1, 2}, a \in {3, 8}}
    \cup {BalanceEntry(Num(1), "X", OTHER_ADDRESS, Num(3)),
          BalanceEntry(Num(1), "X", OTHER_ADDRESS, Num(8)),
          BalanceEntry(Num(1), "X", WALLET_ADDRESS, Null),
          BalanceEntry(Num(1), "X", WALLET_ADDRESS, NonNumeric),
          BalanceEntry(Num(1), "X", OTHER_ADDRESS, NonNumeric),
          BalanceEntry(Num(1), "", WALLET_ADDRESS, Num(8)),
          BalanceEntry(Absent, "X", WALLET_ADDRESS, Num(8))}

\* (preBalances, postBalances) for the account keys <<other, wallet>>: no
\* change, a change of exactly the threshold, above it in either direction,
\* and no snapshots at all
SolSnapshots ==
    {<<<<5000000, 10000000>>, <<5000000, 10000000>>>>,
     <<<<5000000, 10000000>>, <<5000000, 10000000 + FEE_THRESHOLD>>>>,
     <<<<5000000, 10000000>>, <<5000000, 12000000>>>>,
     <<<<5000000, 10000000>>, <<5000000, 8000000>>>>,
     <<<<>>, <<>>>>}

\* Minimal records
MinimalRecords ==
    {[present |-> TRUE, meta |-> TRUE, err |-> e, blockTime |-> T_3H,
      preTokenBalances |-> pre, postTokenBalances |-> post,
      accountKeys |-> <<OTHER_ADDRESS, WALLET_ADDRESS>>,
      preBalances |-> sol[1], postBalances |-> sol[2]] :
        e \in BOOLEAN,
        pre \in SeqsUpTo(BalanceEntries, MaxBalances),
        post \in SeqsUpTo(BalanceEntries, MaxBalances),
        sol \in SolSnapshots}
    \cup {EmptyTx, [EmptyTx EXCEPT !.present = TRUE]}

-----------------------------------------------------------------------------
(* The normalizers applied to their inputs *)

NormalizeHeliusCli ==
    /\ npc = "input"
    /\ parser = "helius_cli"
    /\ result' = parse_helius_transactions(raw_records, WALLET_ADDRESS)
    /\ npc' = "done"
    /\ UNCHANGED <<parser, raw_records, raw_tx>>
    /\ UNCHANGED notNormVars

NormalizeHeliusWeb ==
    /\ npc = "input"
    /\ parser = "helius_web"
    /\ result' = parse_transfers(raw_records)
    /\ npc' = "done"
    /\ UNCHANGED <<parser, raw_records, raw_tx>>
    /\ UNCHANGED notNormVars

NormalizeRpc ==
    /\ npc = "input"
    /\ parser = "rpc"
    /\ result' = parse_token_transfers(raw_tx, WALLET_ADDRESS)
    /\ npc' = "done"
    /\ UNCHANGED <<parser, raw_records, raw_tx>>
    /\ UNCHANGED notNormVars

InitNormalize ==
    /\ parser \in {"helius_cli", "helius_web", "rpc"}
    /\ IF parser = "rpc"
       THEN raw_records = <<>> /\ raw_tx \in MinimalRecords
       ELSE raw_records \in SeqsUpTo(EnrichedRecords, MaxRecords)
            /\ raw_tx = EmptyTx
    /\ npc = "input"
    /\ result = Returned(<<>>)
    /\ IdleFetch
    /\ IdleVolume
    /\ IdlePrices
    /\ IdleRpc

NextNormalize ==
    \/ NormalizeHeliusCli
    \/ NormalizeHeliusWeb
    \/ NormalizeRpc

SpecNormalize == InitNormalize /\ [][NextNormalize]_vars

-----------------------------------------------------------------------------
(* Properties of the normalizers *)

\* C5: every transfer produced by parse_helius_transactions (Enriched) and
\* by parse_token_transfers (Minimal), for any raw amounts, negative ones
\* included, has a non-zero signed amount and is a buy if and only if that
\* amount is greater than 0, a sell if and only if it is less than 0.
C5_BuyIffPositive ==
    (npc = "done" /\ parser \in {"helius_cli", "rpc"} /\ ~result.raised) =>
        \A i \in 1..Len(result.transfers) :
            LET t == result.transfers[i]
            IN  /\ t.change # 0
                /\ t.type = "buy" <=> t.change > 0
                /\ t.type = "sell" <=> t.change < 0

\* C6: a Minimal record flagged with an execution error yields zero
\* transfers, whatever its token-balance and native-balance snapshots show.
C6_FailedTransactionYieldsNothing ==
    (npc = "done" /\ parser = "rpc" /\ raw_tx.present /\ raw_tx.meta
     /\ raw_tx.err) => result = Returned(<<>>)

\* a failed transaction whose snapshots show the wallet receiving 8 X and
\* 0.002 SOL: nothing is extracted
C6_Witness ==
    /\ npc = "done"
    /\ parser = "rpc"
    /\ raw_tx.err
    /\ raw_tx.preTokenBalances = <<>>
    /\ raw_tx.postTokenBalances =
           <<BalanceEntry(Num(1), "X", WALLET_ADDRESS, Num(8))>>
    /\ Len(raw_tx.preBalances) = 2
    /\ Len(raw_tx.postBalances) = 2
    /\ raw_tx.postBalances[2] - raw_tx.preBalances[2] = 2000000
    /\ result.transfers = <<>>

\* C7: normalization is total: no parser raises, whatever the records hold
\* (missing fields, null or non-numeric amounts).
C7_NormalizeNeverRaises == npc = "done" => ~result.raised

-----------------------------------------------------------------------------
(* The aggregation: analyze_wallet_volume (CLI), get_volume_data (web)      *)

\* records per run of the aggregation
MaxVolumeRecords == 2

\* the keys of `timeframes`, in the order of the dict
Timeframes == <<"1d", "7d", "30d", "lifetime">>

TimeframeNames == {Timeframes[i] : i \in 1..Len(Timeframes)}

\* `timedelta(days=...)` of the bounded timeframes
TimeframeDays == [tf \in {"1d", "7d", "30d"} |->
                     IF tf = "1d" THEN 1 ELSE IF tf = "7d" THEN 7 ELSE 30]

\* a faulty variant: a missing block timestamp is read as the epoch
TxTimeEpoch(block_time) == block_time

\* `datetime.fromtimestamp(block_time) if block_time else now`
TxTime(block_time) == IF block_time # 0 THEN block_time ELSE NOW

\* `tx_time >= tf_start`; the start of "lifetime" is datetime.min
InTimeframe(tf, tx_time) ==
    IF tf = "lifetime" THEN TRUE
    ELSE tx_time >= NOW - TimeframeDays[tf] * DAY

\* the bucket the defaultdict creates
EmptyBucket ==
    [buy |-> 0, sell |-> 0, trades |-> 0,
     buy_usd |-> 0, sell_usd |-> 0, total_usd |-> 0]

\* `volume_data[mint]` of the defaultdict: created on first access
Touch(vd, mint) ==
    [m \in DOMAIN vd \cup {mint} |->
        IF m \in DOMAIN vd THEN vd[m]
        ELSE [tf \in TimeframeNames |-> EmptyBucket]]

\* a faulty variant: the trade is counted on the buy side only
CliAccumulateBuyTrades(bucket, change) ==
    IF change > 0
    THEN [bucket EXCEPT !.buy = @ + change, !.trades = @ + 1]
    ELSE [bucket EXCEPT !.sell = @ + Abs(change)]

\* the CLI's update of one bucket: the sign of `change` decides the side
CliAccumulate(bucket, change) ==
    IF change > 0
    THEN [bucket EXCEPT !.buy = @ + change, !.trades = @ + 1]
    ELSE [bucket EXCEPT !.sell = @ + Abs(change), !.trades = @ + 1]

\* the web server's update of one bucket: the type decides the side
WebAccumulate(bucket, type, amount) ==
    IF type = "buy"
    THEN [bucket EXCEPT !.buy = @ + amount, !.trades = @ + 1]
    ELSE [bucket EXCEPT !.sell = @ + amount, !.trades = @ + 1]

\* the body of `for transfer in all_transfers:` of analyze_wallet_volume
CliFold(vd, transfer) ==
    [Touch(vd, transfer.mint) EXCEPT ![transfer.mint] =
        [tf \in TimeframeNames |->
            IF InTimeframe(tf, TxTime(transfer.block_time))
            THEN CliAccumulate(@[tf], transfer.change)
            ELSE @[tf]]]

\* the body of `for transfer in transfers:` of get_volume_data
WebFold(vd, transfer) ==
    [Touch(vd, transfer.mint) EXCEPT ![transfer.mint] =
        [tf \in TimeframeNames |->
            IF InTimeframe(tf, TxTime(transfer.timestamp))
            THEN WebAccumulate(@[tf], transfer.type, transfer.amount)
            ELSE @[tf]]]

\* the unit price the price feed quotes for an asset it knows
Quote(mint) == IF mint = "X" THEN 2 ELSE 3

\* `mints[:100]`
PRICE_BATCH_LIMIT == 100

\* one entry of the feed's JSON answer: no entry for the id, an entry that is
\* not an object, an object without "usdPrice", an object with "usdPrice"
NoInfo == [present |-> FALSE, dict |-> FALSE, usdPrice |-> Absent]
NotDictInfo == [present |-> TRUE, dict |-> FALSE, usdPrice |-> Absent]
NoPriceInfo == [present |-> TRUE, dict |-> TRUE, usdPrice |-> Absent]
PriceInfo(v) == [present |-> TRUE, dict |-> TRUE, usdPrice |-> v]

\* what the feed may say about one id
PriceInfos(mint) ==
    {NoInfo, NotDictInfo, NoPriceInfo, PriceInfo(Num(Quote(mint))),
     PriceInfo(Null)}

\* the ids of a list
IdSet(mints) == {mints[i] : i \in 1..Len(mints)}

\* what the feed may answer to one request: a non-200 status, a transport or
\* decode failure, or a JSON object
FeedAnswers(ids) ==
    {[kind |-> k, data |-> [m \in IdSet(ids) |-> NoInfo]] :
        k \in {"status", "exception"}}
    \cup {[kind |-> "ok", data |-> d] :
            d \in {f \in [IdSet(ids) ->
                             UNION {PriceInfos(m) : m \in IdSet(ids)}] :
                      \A m \in IdSet(ids) : f[m] \in PriceInfos(m)}}

\* `",".join(mints[:100])`
BatchIds(mints) ==
    SubSeq(mints, 1, IF Len(mints) < PRICE_BATCH_LIMIT THEN Len(mints)
                     ELSE PRICE_BATCH_LIMIT)

\* the requests get_jupiter_prices issues: none for an empty list, else one
JupiterRequests(mints) == IF mints = <<>> THEN <<>> ELSE <<BatchIds(mints)>>

\* get_jupiter_prices: the quotes of the entries that are objects with a
\* "usdPrice"; nothing on an empty list, a non-200 status or an exception
get_jupiter_prices(mints, answer) ==
    IF mints = <<>> \/ answer.kind # "ok"
    THEN [m \in {} |-> Null]
    ELSE [m \in {x \in DOMAIN answer.data :
                    /\ answer.data[x].present
                    /\ answer.data[x].dict
                    /\ answer.data[x].usdPrice.tag # "absent"}
             |-> answer.data[m].usdPrice]

\* the assets of the transfers lo..hi in the order the fold first meets them:
\* those of the first half, then those of the second half not met before
RECURSIVE KeysBetween(_, _, _)
KeysBetween(transfers, lo, hi) ==
    IF lo > hi THEN <<>>
    ELSE IF lo = hi THEN <<transfers[lo].mint>>
    ELSE LET mid == (lo + hi) \div 2
             first == KeysBetween(transfers, lo, mid)
             IsNew(m) == m \notin IdSet(first)
         IN  first \o SelectSeq(KeysBetween(transfers, mid + 1, hi), IsNew)

\* `list(volume_data.keys())`: the assets in the order the fold first met them
Keys(transfers, n) == KeysBetween(transfers, 1, n)

\* a faulty variant: the lookup has no default
PriceOrNone(p, mint) == IF mint \in DOMAIN p THEN p[mint] ELSE Null

\* `prices.get(mint, {}).get("price", 0)` / `prices.get(mint, 0)`
PriceOrZero(p, mint) == IF mint \in DOMAIN p THEN p[mint] ELSE Num(0)

\* `float(...)` of the CLI and `data["buy"] * price` of the web server raise
\* on a price that is not a number
UsdRaises(vd, p) == \E m \in DOMAIN vd : FloatRaises(PriceOrZero(p, m))

\* a faulty variant: the total is the net of the two sides, not their sum
WithUsdNet(bucket, price) ==
    [bucket EXCEPT !.buy_usd = bucket.buy * price,
                   !.sell_usd = bucket.sell * price,
                   !.total_usd = bucket.buy * price - bucket.sell * price]

\* the USD fields of one bucket
WithUsd(bucket, price) ==
    [bucket EXCEPT !.buy_usd = bucket.buy * price,
                   !.sell_usd = bucket.sell * price,
                   !.total_usd = bucket.buy * price + bucket.sell * price]

\* `active_tokens` of print_volume_report: the assets with a positive buy or
\* sell amount in some window
ActiveTokens(vd) ==
    {m \in DOMAIN vd :
        \E tf \in TimeframeNames : vd[m][tf].buy > 0 \/ vd[m][tf].sell > 0}

\* Enriched records of a run: X received (10), X sent (4), X received with a
\* negative raw amount, at each block time and without one; Y received and
\* sent; a record with a null amount
VolumeRecords ==
    {EnrichedRecord(t, <<TokenEntry("X", c[1], Num(c[2]))>>, <<>>) :
        t \in {0, T_3H, T_2D, T_10D, T_40D},
        c \in {<<<<OTHER_ADDRESS, WALLET_ADDRESS>>, 10>>,
               <<<<WALLET_ADDRESS, OTHER_ADDRESS>>, 4>>,
               <<<<OTHER_ADDRESS, WALLET_ADDRESS>>, -5>>}}
    \cup {EnrichedRecord(T_3H,
              <<TokenEntry("Y", <<OTHER_ADDRESS, WALLET_ADDRESS>>, Num(10))>>,
              <<>>),
          EnrichedRecord(T_2D,
              <<TokenEntry("Y", <<WALLET_ADDRESS, OTHER_ADDRESS>>, Num(4))>>,
              <<>>),
          EnrichedRecord(T_3H,
              <<TokenEntry("X", <<OTHER_ADDRESS, WALLET_ADDRESS>>, Null)>>,
              <<>>)}

\* `all_transfers = parse_helius_transactions(helius_txs, wallet)` /
\* `transfers = parse_transfers(transactions)`
VolumeParse ==
    /\ vpc = "parse"
    /\ LET r == IF impl = "cli"
                THEN parse_helius_transactions(vol_records, WALLET_ADDRESS)
                ELSE parse_transfers(vol_records)
       IN  IF r.raised
           THEN vpc' = "raised" /\ all_transfers' = <<>>
           ELSE vpc' = "fold" /\ all_transfers' = r.transfers
    /\ UNCHANGED <<impl, vol_records, folded, volume_data, prices,
                   price_calls, price_requests, sorted_tokens>>
    /\ UNCHANGED notVolVars

\* one round of the fold loop
VolumeFold ==
    /\ vpc = "fold"
    /\ folded < Len(all_transfers)
    /\ volume_data' =
           IF impl = "cli" THEN CliFold(volume_data, all_transfers[folded + 1])
           ELSE WebFold(volume_data, all_transfers[folded + 1])
    /\ folded' = folded + 1
    /\ UNCHANGED <<impl, vol_records, all_transfers, vpc, prices,
                   price_calls, price_requests, sorted_tokens>>
    /\ UNCHANGED notVolVars

\* `all_mints = list(volume_data.keys())`, `prices = get_jupiter_prices(all_mints)`
VolumeGetPrices ==
    /\ vpc = "fold"
    /\ folded = Len(all_transfers)
    /\ LET all_mints == Keys(all_transfers, Len(all_transfers))
       IN  /\ price_calls' = Append(price_calls, all_mints)
           /\ price_requests' = price_requests \o JupiterRequests(all_mints)
           /\ \E answer \in FeedAnswers(BatchIds(all_mints)) :
                  prices' = get_jupiter_prices(all_mints, answer)
    /\ vpc' = "usd"
    /\ UNCHANGED <<impl, vol_records, all_transfers, folded, volume_data,
                   sorted_tokens>>
    /\ UNCHANGED notVolVars

\* `tokens_volume[:20]`
WEB_TOKEN_LIMIT == 20

\* sorted(items, key=..., reverse=True): descending by key; the sort is stable,
\* items with equal keys keep their order
SortedDescending(items, key) ==
    LET n == Len(items)
        Before(i, j) ==
            \/ key[items[i]] > key[items[j]]
            \/ key[items[i]] = key[items[j]] /\ i < j
        placed == {<<1 + Cardinality({j \in 1..n : Before(j, i)}), i>> :
                      i \in 1..n}
    IN  [k \in 1..n |-> items[(CHOOSE p \in placed : p[1] = k)[2]]]

\* `x[1]["lifetime"].get("total_usd", 0) or
\*  (x[1]["lifetime"]["buy"] + x[1]["lifetime"]["sell"])`
CliSortKey(tf_data) ==
    IF tf_data["lifetime"].total_usd # 0 THEN tf_data["lifetime"].total_usd
    ELSE tf_data["lifetime"].buy + tf_data["lifetime"].sell

\* `x["timeframes"]["lifetime"]["total_usd"]`
WebSortKey(tf_data) == tf_data["lifetime"].total_usd

\* `sorted_tokens` of print_volume_report: the active assets, in the order of
\* the dict, sorted by the CLI's key
CliSortedTokens(vd, all_mints) ==
    LET IsActive(m) == m \in ActiveTokens(vd)
    IN  SortedDescending(SelectSeq(all_mints, IsActive),
                         [m \in DOMAIN vd |-> CliSortKey(vd[m])])

\* `tokens_volume.sort(...)` and `tokens_volume[:20]` of get_volume_data
WebTokens(vd, all_mints) ==
    LET sorted == SortedDescending(all_mints,
                                   [m \in DOMAIN vd |-> WebSortKey(vd[m])])
    IN  SubSeq(sorted, 1, IF Len(sorted) < WEB_TOKEN_LIMIT THEN Len(sorted)
                          ELSE WEB_TOKEN_LIMIT)

\* the USD loop over volume_data; get_volume_data goes on to sort the assets
\* and returns
VolumeUsd ==
    /\ vpc = "usd"
    /\ IF UsdRaises(volume_data, prices)
       THEN vpc' = "raised" /\ UNCHANGED <<volume_data, sorted_tokens>>
       ELSE /\ vpc' = "done"
            /\ volume_data' =
                   [m \in DOMAIN volume_data |->
                       [tf \in TimeframeNames |->
                           WithUsd(volume_data[m][tf],
                                   Float(PriceOrZero(prices, m)))]]
            /\ sorted_tokens' =
                   IF impl = "web"
                   THEN WebTokens(volume_data',
                                  Keys(all_transfers, Len(all_transfers)))
                   ELSE sorted_tokens
    /\ UNCHANGED <<impl, vol_records, all_transfers, folded, prices,
                   price_calls, price_requests>>
    /\ UNCHANGED notVolVars

\* print_volume_report(volume_data, prices), which main calls with what
\* analyze_wallet_volume returned
PrintVolumeReport ==
    /\ vpc = "done"
    /\ impl = "cli"
    /\ vpc' = "printed"
    /\ sorted_tokens' =
           CliSortedTokens(volume_data, Keys(all_transfers, Len(all_transfers)))
    /\ UNCHANGED <<impl, vol_records, all_transfers, folded, volume_data, prices,
                   price_calls, price_requests>>
    /\ UNCHANGED notVolVars

InitVolume ==
    /\ impl \in {"cli", "web"}
    /\ vol_records \in SeqsUpTo(VolumeRecords, MaxVolumeRecords)
    /\ all_transfers = <<>>
    /\ vpc = "parse"
    /\ folded = 0
    /\ volume_data = <<>>
    /\ prices = <<>>
    /\ price_calls = <<>>
    /\ price_requests = <<>>
    /\ sorted_tokens = <<>>
    /\ IdleFetch
    /\ IdleNormalize
    /\ IdlePrices
    /\ IdleRpc

NextVolume ==
    \/ VolumeParse
    \/ VolumeFold
    \/ VolumeGetPrices
    \/ VolumeUsd
    \/ PrintVolumeReport

SpecVolume == InitVolume /\ [][NextVolume]_vars

-----------------------------------------------------------------------------
(* Properties of the aggregation *)

\* the transfer's signed amount, classification and time as the data model
\* has them: occurred_at is the block timestamp, 0 when the record has none
SignedAmount(t) ==
    IF impl = "cli" THEN t.change
    ELSE IF t.type = "buy" THEN t.amount ELSE 0 - t.amount

OccurredAt(t) == IF impl = "cli" THEN t.block_time ELSE t.timestamp

\* occurred_at is at or after the window's start (-infinity for lifetime)
AtOrAfterStart(tf, t) ==
    IF tf = "lifetime" THEN TRUE
    ELSE OccurredAt(t) >= NOW - TimeframeDays[tf] * DAY

\* sum of |signed_amount| over the first n transfers of asset m with the
\* given classification that lie in window tf
RECURSIVE WindowSum(_, _, _, _)
WindowSum(n, m, tf, type) ==
    IF n = 0 THEN 0
    ELSE WindowSum(n - 1, m, tf, type)
         + (IF all_transfers[n].mint = m /\ all_transfers[n].type = type
               /\ AtOrAfterStart(tf, all_transfers[n])
            THEN Abs(SignedAmount(all_transfers[n])) ELSE 0)

\* the number of those transfers, of either classification
WindowCount(n, m, tf) ==
    Cardinality({i \in 1..n : all_transfers[i].mint = m
                              /\ AtOrAfterStart(tf, all_transfers[i])})

\* the number of the first n transfers of asset m the fold put into window tf
FoldedInto(n, m, tf) ==
    Cardinality({i \in 1..n :
        /\ all_transfers[i].mint = m
        /\ InTimeframe(tf, TxTime(OccurredAt(all_transfers[i])))})

\* C8: after aggregation, for every asset and window, buy_amount is the sum
\* of |signed_amount| over the asset's buy transfers whose occurred_at is at
\* or after the window start, sell_amount the same over its sell transfers,
\* and trade_count the number of those transfers.
C8_BucketsAreWindowSums ==
    vpc = "done" =>
        \A m \in DOMAIN volume_data : \A tf \in TimeframeNames :
            /\ volume_data[m][tf].buy
                   = WindowSum(Len(all_transfers), m, tf, "buy")
            /\ volume_data[m][tf].sell
                   = WindowSum(Len(all_transfers), m, tf, "sell")
            /\ volume_data[m][tf].trades
                   = WindowCount(Len(all_transfers), m, tf)

\* C9: in every state of an aggregation pass and in its result, every bucket
\* has buy_amount >= 0, sell_amount >= 0 and a trade_count of at least the
\* number of transfers folded into it, in the CLI and in the web aggregation.
C9_BucketsNonNegative ==
    \A m \in DOMAIN volume_data : \A tf \in TimeframeNames :
        /\ volume_data[m][tf].buy >= 0
        /\ volume_data[m][tf].sell >= 0
        /\ volume_data[m][tf].trades >= FoldedInto(folded, m, tf)

\* C10: window monotonicity: a transfer counted in a window is counted in
\* every longer one, so buy amount, sell amount and trade count never
\* decrease along 1d, 7d, 30d, lifetime, and lifetime counts every transfer.
C10_WindowsMonotone ==
    /\ \A i \in 1..folded : \A k \in 1..(Len(Timeframes) - 1) :
          InTimeframe(Timeframes[k], TxTime(OccurredAt(all_transfers[i])))
              => InTimeframe(Timeframes[k + 1],
                             TxTime(OccurredAt(all_transfers[i])))
    /\ \A m \in DOMAIN volume_data :
          /\ \A k \in 1..(Len(Timeframes) - 1) :
                /\ volume_data[m][Timeframes[k]].buy
                       <= volume_data[m][Timeframes[k + 1]].buy
                /\ volume_data[m][Timeframes[k]].sell
                       <= volume_data[m][Timeframes[k + 1]].sell
                /\ volume_data[m][Timeframes[k]].trades
                       <= volume_data[m][Timeframes[k + 1]].trades
          /\ volume_data[m]["lifetime"].trades
                 = Cardinality({i \in 1..folded : all_transfers[i].mint = m})

\* the transfers among the first n of asset m that the aggregation counts in
\* window tf when a missing block timestamp stands for the present moment
CountedAsNow(n, m, tf) ==
    {i \in 1..n :
        /\ all_transfers[i].mint = m
        /\ \/ OccurredAt(all_transfers[i]) = 0
           \/ AtOrAfterStart(tf, all_transfers[i])}

RECURSIVE FoldOf(_)
FoldOf(n) ==
    IF n = 0 THEN <<>>
    ELSE IF impl = "cli" THEN CliFold(FoldOf(n - 1), all_transfers[n])
    ELSE WebFold(FoldOf(n - 1), all_transfers[n])

\* the assets of the result that have no quote in the resolved price mapping
Unquoted == DOMAIN volume_data \ DOMAIN prices

\* C12: for every asset that has no quote in the resolved price mapping
\* (including when the price source fails or returns nothing), every window's
\* buy_usd, sell_usd and total_usd are 0, the asset and its token amounts and
\* trade counts stay in the result, and the aggregation completes without
\* error: an error of the valuation is never due to an asset without quote.
C12_MissingPriceIsZeroUsd ==
    /\ (vpc = "raised" /\ price_calls # <<>>) =>
          \E m \in DOMAIN volume_data \cap DOMAIN prices :
              prices[m].tag # "num"
    /\ vpc = "done" =>
          /\ DOMAIN volume_data
                 = IdSet(Keys(all_transfers, Len(all_transfers)))
          /\ \A m \in Unquoted : \A tf \in TimeframeNames :
                /\ volume_data[m][tf].buy_usd = 0
                /\ volume_data[m][tf].sell_usd = 0
                /\ volume_data[m][tf].total_usd = 0
                /\ volume_data[m][tf].buy
                       = FoldOf(Len(all_transfers))[m][tf].buy
                /\ volume_data[m][tf].sell
                       = FoldOf(Len(all_transfers))[m][tf].sell
                /\ volume_data[m][tf].trades
                       = FoldOf(Len(all_transfers))[m][tf].trades

\* a finished run with an asset that traded and has no quote, next to an
\* asset that has one
C12_Witness ==
    /\ vpc = "done"
    /\ \E m \in Unquoted :
          /\ volume_data[m]["lifetime"].buy > 0
          /\ volume_data[m]["lifetime"].trades = 1
          /\ volume_data[m]["lifetime"].total_usd = 0
    /\ \E m \in DOMAIN volume_data \cap DOMAIN prices :
          volume_data[m]["lifetime"].total_usd > 0

\* the unit price the valuation uses for asset m
UnitPrice(m) == Float(PriceOrZero(prices, m))

\* C13: single valuation per run: the price resolver is called exactly once,
\* after every transfer has been folded and for exactly the set of asset ids
\* touched, and the one unit price obtained for an asset is used for all of
\* that asset's windows: in every bucket buy_usd = buy_amount * price,
\* sell_usd = sell_amount * price and total_usd = buy_usd + sell_usd.
C13_SingleValuationPerRun ==
    /\ Len(price_calls) <= 1
    /\ Len(price_requests) <= 1
    /\ vpc \in {"parse", "fold"} => price_calls = <<>>
    /\ vpc \in {"usd", "done"} => Len(price_calls) = 1
    /\ price_calls # <<>> =>
          /\ folded = Len(all_transfers)
          /\ IdSet(price_calls[1]) = DOMAIN volume_data
          /\ IdSet(price_calls[1])
                 = {all_transfers[i].mint : i \in 1..Len(all_transfers)}
          /\ Cardinality(IdSet(price_calls[1])) = Len(price_calls[1])
    /\ vpc = "done" =>
          \A m \in DOMAIN volume_data : \A tf \in TimeframeNames :
              /\ volume_data[m][tf].buy_usd
                     = volume_data[m][tf].buy * UnitPrice(m)
              /\ volume_data[m][tf].sell_usd
                     = volume_data[m][tf].sell * UnitPrice(m)
              /\ volume_data[m][tf].total_usd
                     = volume_data[m][tf].buy_usd + volume_data[m][tf].sell_usd

\* a finished run over a quoted asset bought within the last day and sold
\* within the last week, valued after one call of the resolver
C13_Witness ==
    /\ vpc = "done"
    /\ Len(price_calls) = 1
    /\ Len(price_requests) = 1
    /\ folded = 2
    /\ DOMAIN prices = DOMAIN volume_data
    /\ \E m \in DOMAIN volume_data :
          /\ volume_data[m]["1d"].buy_usd > 0
          /\ volume_data[m]["1d"].sell_usd = 0
          /\ volume_data[m]["7d"].sell_usd > 0
          /\ volume_data[m]["lifetime"].total_usd
                 > volume_data[m]["lifetime"].buy_usd

-----------------------------------------------------------------------------
(* The price chain: get_prices of wallet_balance.py                         *)

\* ids per batch handed to get_prices
MaxMints == 2

\* the USDC mint, one of the keys of `coingecko_ids`
USDC_MINT == "EPjFWdd5AufqSSqeM2qN1xzybapC8G4wEGGkZwyTDt1v"

\* the ids a batch may hold: two with a CoinGecko id, two without
MintPool == {SOL_MINT, USDC_MINT, "X", "Y"}

\* the keys of `coingecko_ids` among them
coingecko_ids == {SOL_MINT, USDC_MINT}

\* the batches: lists of distinct ids
MintLists ==
    {l \in SeqsUpTo(MintPool, MaxMints) : Cardinality(IdSet(l)) = Len(l)}

\* what a source's answer may hold for one id: nothing, a quote, and for the
\* primary a null entry, for the others an entry without "usd"
PrimaryEntries == {"absent", "quote", "null"}
MarketEntries == {"absent", "quote", "nousd"}

\* what a source may answer to a request for ids: a transport or decode
\* failure, a non-200 status, or a JSON object
ChainAnswers(ids, entries) ==
    {[kind |-> k, entries |-> [m \in IdSet(ids) |-> "absent"]] :
        k \in {"exception", "status"}}
    \cup {[kind |-> "ok", entries |-> e] : e \in [IdSet(ids) -> entries]}

\* the primary may also answer an object without "data"
PrimaryAnswers(ids) ==
    ChainAnswers(ids, PrimaryEntries)
    \cup {[kind |-> "nodata", entries |-> [m \in IdSet(ids) |-> "absent"]]}

\* the price an entry stands for: `price_data.get("usd", 0)` is 0 without "usd"
EntryPrice(mint, entry) ==
    IF entry = "quote" THEN Num(Quote(mint))
    ELSE IF entry = "null" THEN Null
    ELSE Num(0)

\* the mapping a JSON answer holds
AnswerMapping(answer) ==
    [m \in {x \in DOMAIN answer.entries : answer.entries[x] # "absent"}
        |-> EntryPrice(m, answer.entries[m])]

\* get_jupiter_prices of wallet_balance.py, past its request: the "data" of a
\* 200 answer, else {}
BalanceJupiterPrices(answer) ==
    IF answer.kind = "ok" THEN AnswerMapping(answer) ELSE <<>>

\* the contribution of a CoinGecko request: nothing on a failure (caught) or
\* a non-200 status
MarketPrices(answer) ==
    IF answer.kind = "ok" THEN AnswerMapping(answer) ELSE <<>>

\* `prices[mint] = ...` for each entry of an answer
Merge(p, q) ==
    [m \in DOMAIN p \cup DOMAIN q |-> IF m \in DOMAIN q THEN q[m] ELSE p[m]]

\* the elements of a list that satisfy a test, in the list's order
RECURSIVE Filter(_, _, _)
Filter(mints, keep, n) ==
    IF n = 0 THEN <<>>
    ELSE IF mints[n] \in keep THEN Append(Filter(mints, keep, n - 1), mints[n])
    ELSE Filter(mints, keep, n - 1)

\* `ids_to_fetch`: the ids of the batch that have a CoinGecko id
IdsToFetch(mints) == Filter(mints, coingecko_ids, Len(mints))

\* `remaining = [m for m in mint_addresses if m not in prices]`
Remaining(mints, p) == Filter(mints, IdSet(mints) \ DOMAIN p, Len(mints))

\* a faulty variant: the chain goes on after a non-empty primary result
NeverTruthy(d) == FALSE

\* `if jupiter_prices:`: a non-empty mapping
Truthy(d) == DOMAIN d # {}

\* one consultation of a source, as the log keeps it
Consulted(src, ids, answer, yield) ==
    [source |-> src, ids |-> ids, failed |-> answer.kind = "exception",
     yield |-> yield]

\* `jupiter_prices = get_jupiter_prices(mint_addresses)`,
\* `if jupiter_prices: return jupiter_prices`; the request and the decoding
\* are not guarded, a failure leaves get_prices as an exception
PricesPrimary ==
    /\ ppc = "primary"
    /\ IF mint_addresses = <<>>
       THEN /\ ppc' = "secondary"
            /\ UNCHANGED <<consulted, chain_result>>
       ELSE \E answer \in PrimaryAnswers(mint_addresses) :
              LET jupiter_prices == BalanceJupiterPrices(answer)
              IN  /\ consulted' =
                         Append(consulted,
                                Consulted("primary", mint_addresses, answer,
                                          jupiter_prices))
                  /\ IF answer.kind = "exception"
                     THEN ppc' = "raised" /\ UNCHANGED chain_result
                     ELSE IF Truthy(jupiter_prices)
                     THEN ppc' = "done" /\ chain_result' = jupiter_prices
                     ELSE ppc' = "secondary" /\ UNCHANGED chain_result
    /\ UNCHANGED <<mint_addresses, chain_prices>>
    /\ UNCHANGED notPriceVars

\* the CoinGecko request by id, inside try/except
PricesSecondary ==
    /\ ppc = "secondary"
    /\ LET ids_to_fetch == IdsToFetch(mint_addresses)
       IN  IF ids_to_fetch = <<>>
           THEN UNCHANGED <<consulted, chain_prices>>
           ELSE \E answer \in ChainAnswers(ids_to_fetch, MarketEntries) :
                  /\ consulted' =
                         Append(consulted,
                                Consulted("secondary", ids_to_fetch, answer,
                                          MarketPrices(answer)))
                  /\ chain_prices' = Merge(chain_prices, MarketPrices(answer))
    /\ ppc' = "tertiary"
    /\ UNCHANGED <<mint_addresses, chain_result>>
    /\ UNCHANGED notPriceVars

\* the CoinGecko request by contract address for the remaining ids, inside
\* try/except, and `return prices`
PricesTertiary ==
    /\ ppc = "tertiary"
    /\ LET remaining == Remaining(mint_addresses, chain_prices)
       IN  IF remaining = <<>>
           THEN /\ chain_result' = chain_prices
                /\ UNCHANGED <<consulted, chain_prices>>
           ELSE \E answer \in ChainAnswers(remaining, MarketEntries) :
                  /\ consulted' =
                         Append(consulted,
                                Consulted("tertiary", remaining, answer,
                                          MarketPrices(answer)))
                  /\ chain_prices' = Merge(chain_prices, MarketPrices(answer))
                  /\ chain_result' = chain_prices'
    /\ ppc' = "done"
    /\ UNCHANGED mint_addresses
    /\ UNCHANGED notPriceVars

InitPrices ==
    /\ mint_addresses \in MintLists
    /\ ppc = "primary"
    /\ chain_prices = <<>>
    /\ consulted = <<>>
    /\ chain_result = <<>>
    /\ IdleFetch
    /\ IdleNormalize
    /\ IdleVolume
    /\ IdleRpc

NextPrices ==
    \/ PricesPrimary
    \/ PricesSecondary
    \/ PricesTertiary

SpecPrices == InitPrices /\ [][NextPrices]_vars

-----------------------------------------------------------------------------
(* Properties of the price chain *)

\* the place of a source in the chain
Rank(src) == IF src = "primary" THEN 1 ELSE IF src = "secondary" THEN 2 ELSE 3

\* the sources are consulted in the order primary, secondary, tertiary, each
\* at most once
ConsultedInOrder ==
    \A i, j \in 1..Len(consulted) :
        i < j => Rank(consulted[i].source) < Rank(consulted[j].source)

\* whether a source was consulted, for which ids, and what it yielded
WasConsulted(src) == \E i \in 1..Len(consulted) : consulted[i].source = src

IdsOf(src) ==
    IF WasConsulted(src)
    THEN consulted[CHOOSE i \in 1..Len(consulted) :
                       consulted[i].source = src].ids
    ELSE <<>>

YieldOf(src) ==
    IF WasConsulted(src)
    THEN consulted[CHOOSE i \in 1..Len(consulted) :
                       consulted[i].source = src].yield
    ELSE <<>>

\* C14 as stated: the price chain tries its sources in the fixed order
\* primary, secondary, tertiary and short-circuits: as soon as one source
\* yields a non-empty result for any subset of the ids, no later source is
\* consulted and that result is returned.
C14_ChainShortCircuits ==
    /\ ConsultedInOrder
    /\ \A i, j \in 1..Len(consulted) :
          i < j => DOMAIN consulted[i].yield = {}
    /\ ppc = "done" =>
          \A i \in 1..Len(consulted) :
              DOMAIN consulted[i].yield # {}
                  => DOMAIN chain_result = DOMAIN consulted[i].yield

\* C14 as amended: the sources are tried in the fixed order primary,
\* secondary, tertiary, the primary for the whole batch, and only the primary
\* short-circuits: a non-empty primary result is returned and no later source
\* is consulted.  After an empty primary result the secondary is consulted
\* for the ids that have a cross-reference id, and the tertiary for every id
\* the secondary left without quote, also when the secondary yielded a
\* non-empty result; the result is the two results together.
C14_OnlyPrimaryShortCircuits ==
    /\ ConsultedInOrder
    /\ WasConsulted("primary") => IdsOf("primary") = mint_addresses
    /\ DOMAIN YieldOf("primary") # {} =>
          /\ Len(consulted) = 1
          /\ ppc = "done"
          /\ DOMAIN chain_result = DOMAIN YieldOf("primary")
          /\ \A m \in DOMAIN chain_result :
                chain_result[m] = YieldOf("primary")[m]
    /\ (ppc = "done" /\ DOMAIN YieldOf("primary") = {}) =>
          /\ WasConsulted("secondary") <=> IdsToFetch(mint_addresses) # <<>>
          /\ IdsOf("secondary") = IdsToFetch(mint_addresses)
          /\ WasConsulted("tertiary")
                 <=> IdSet(mint_addresses) \ DOMAIN YieldOf("secondary") # {}
          /\ IdSet(IdsOf("tertiary"))
                 = IdSet(mint_addresses) \ DOMAIN YieldOf("secondary")
          /\ DOMAIN chain_result
                 = DOMAIN YieldOf("secondary") \cup DOMAIN YieldOf("tertiary")
          /\ \A m \in DOMAIN chain_result :
                chain_result[m]
                    = Merge(YieldOf("secondary"), YieldOf("tertiary"))[m]

\* a finished resolution in which the primary gave nothing, the secondary
\* gave a quote and the tertiary was then consulted and gave another
C14_Witness ==
    /\ ppc = "done"
    /\ Len(consulted) = 3
    /\ DOMAIN YieldOf("secondary") # {}
    /\ DOMAIN YieldOf("tertiary") # {}
    /\ Cardinality(DOMAIN chain_result) = 2

\* C15: each price source is independently fault-tolerant: a transport or
\* decode failure at the primary, the secondary or the tertiary source
\* contributes an empty result, never propagates out of resolve, and the
\* chain goes on to the next source for the ids still unresolved; ids that no
\* source resolves are simply absent from the returned mapping.
C15_SourcesFaultTolerant ==
    /\ ppc # "raised"
    /\ \A i \in 1..Len(consulted) :
          consulted[i].failed =>
              /\ DOMAIN consulted[i].yield = {}
              /\ (ppc = "done" /\ consulted[i].source = "primary")
                     => Len(consulted) >= 2
              /\ (ppc = "done" /\ consulted[i].source = "secondary")
                     => WasConsulted("tertiary")
    /\ ppc = "done" =>
          DOMAIN chain_result
              = UNION {DOMAIN consulted[i].yield : i \in 1..Len(consulted)}

-----------------------------------------------------------------------------
(* Further properties of the aggregation *)

\* the assets of the result: the CLI report lists the active ones, the web
\* response every one
Present == IF impl = "cli" THEN ActiveTokens(volume_data) ELSE DOMAIN volume_data

\* C16: every asset present in the aggregation result has one bucket for
\* every configured window, a window without activity being retained with
\* zero amounts and zero trade count, and every asset present has non-zero
\* activity in at least one window: no asset with zero activity across all
\* windows appears in the result.
C16_AllWindowsAndSomeActivity ==
    /\ \A m \in DOMAIN volume_data :
          /\ DOMAIN volume_data[m] = TimeframeNames
          /\ volume_data[m]["lifetime"].trades >= 1
          /\ \A tf \in TimeframeNames :
                volume_data[m][tf].trades = 0 =>
                    /\ volume_data[m][tf].buy = 0
                    /\ volume_data[m][tf].sell = 0
                    /\ volume_data[m][tf].buy_usd = 0
                    /\ volume_data[m][tf].sell_usd = 0
                    /\ volume_data[m][tf].total_usd = 0
    /\ vpc = "done" =>
          /\ impl = "cli" => Present = DOMAIN volume_data
          /\ \A m \in Present :
                \E tf \in TimeframeNames : volume_data[m][tf].trades > 0

\* a finished run whose asset was sold forty days ago only: its 1d, 7d and
\* 30d buckets are kept, empty
C16_Witness ==
    /\ vpc = "done"
    /\ \E m \in Present :
          /\ volume_data[m]["lifetime"].sell > 0
          /\ volume_data[m]["lifetime"].buy = 0
          /\ \A tf \in {"1d", "7d", "30d"} :
                volume_data[m][tf].trades = 0 /\ volume_data[m][tf].sell = 0

-----------------------------------------------------------------------------
(* Further properties of the normalizers *)

\* the token-transfer and native-transfer sub-entries of a record, in the
\* order the parsers read them
SubEntries(tx) ==
    [i \in 1..(Len(tx.tokenTransfers) + Len(tx.nativeTransfers)) |->
        IF i <= Len(tx.tokenTransfers)
        THEN [from |-> tx.tokenTransfers[i].fromUserAccount,
              to |-> tx.tokenTransfers[i].toUserAccount,
              amount |-> tx.tokenTransfers[i].tokenAmount]
        ELSE LET e == tx.nativeTransfers[i - Len(tx.tokenTransfers)]
             IN  [from |-> e.fromUserAccount, to |-> e.toUserAccount,
                  amount |-> e.amount]]

\* the sub-entries of the first n records
RECURSIVE AllSubEntries(_, _)
AllSubEntries(transactions, n) ==
    IF n = 0 THEN <<>>
    ELSE AllSubEntries(transactions, n - 1) \o SubEntries(transactions[n])

\* the target address is a side of the entry and the amount is not zero
InvolvesTarget(e) ==
    /\ e.to = WALLET_ADDRESS \/ e.from = WALLET_ADDRESS
    /\ Float(GetOrZero(e.amount)) # 0

\* the signed amount of a transfer a Helius parser produced
SignedOf(t) ==
    IF parser = "helius_cli" THEN t.change
    ELSE IF t.type = "buy" THEN t.amount ELSE 0 - t.amount

\* C17: for every token-transfer and native-transfer sub-entry of an Enriched
\* record: if the target address is the recipient, exactly one buy transfer
\* with a positive signed amount is produced; if the target is the sender,
\* exactly one sell transfer with a negative signed amount; if neither side
\* is the target, or the amount is exactly zero, no transfer is produced.
C17_OneTransferPerTargetEntry ==
    (npc = "done" /\ parser \in {"helius_cli", "helius_web"}
     /\ ~result.raised) =>
        LET entries == SelectSeq(AllSubEntries(raw_records, Len(raw_records)),
                                 InvolvesTarget)
        IN  /\ Len(result.transfers) = Len(entries)
            /\ \A k \in 1..Len(entries) :
                  k <= Len(result.transfers) =>
                      IF entries[k].to = WALLET_ADDRESS
                      THEN /\ result.transfers[k].type = "buy"
                           /\ SignedOf(result.transfers[k]) > 0
                      ELSE /\ result.transfers[k].type = "sell"
                           /\ SignedOf(result.transfers[k]) < 0

\* an amount, in lamports, whose absolute value reaches the threshold
AtLeastThreshold(lamports) == Abs(lamports) >= FEE_THRESHOLD

\* the native-transfer entries of the first n records that have the target
\* address on one side and an amount that reaches the threshold
RECURSIVE NativeEntriesKept(_, _)
NativeEntriesKept(transactions, n) ==
    IF n = 0 THEN 0
    ELSE NativeEntriesKept(transactions, n - 1)
         + Cardinality({i \in 1..Len(transactions[n].nativeTransfers) :
               LET e == transactions[n].nativeTransfers[i]
               IN  /\ e.toUserAccount = WALLET_ADDRESS
                      \/ e.fromUserAccount = WALLET_ADDRESS
                   /\ AtLeastThreshold(Float(GetOrZero(e.amount)))})

\* the native-currency transfers of a parser's result
NativeTransfersOf(transfers) ==
    {k \in 1..Len(transfers) : transfers[k].mint = SOL_MINT}

\* the wallet's native balance was read before and after the transaction
HasSolSnapshots(tx) ==
    /\ tx.present /\ tx.meta /\ ~tx.err
    /\ Len(tx.preBalances) >= 2
    /\ Len(tx.postBalances) >= 2

\* C18: in both record variants a native-currency change is dropped exactly
\* when its absolute value is below the 0.001-unit threshold (1,000,000
\* lamports): a change of exactly 1,000,000 lamports is kept by the Enriched
\* parser and by the Minimal parser alike, and any change below it is dropped
\* by both.
C18_DroppedIffBelowThreshold ==
    /\ (npc = "done" /\ parser = "helius_cli" /\ ~result.raised) =>
          Cardinality(NativeTransfersOf(result.transfers))
              = NativeEntriesKept(raw_records, Len(raw_records))
    /\ (npc = "done" /\ parser = "rpc" /\ ~result.raised
        /\ HasSolSnapshots(raw_tx)) =>
          (NativeTransfersOf(result.transfers) # {}
              <=> AtLeastThreshold(raw_tx.postBalances[2]
                                   - raw_tx.preBalances[2]))

\* the account indices of the record's two token-balance snapshots
SnapshotIndices(tx) ==
    Indices(tx.preTokenBalances) \cup Indices(tx.postTokenBalances)

\* the entries of an index before and after, an absent side being empty
PreOf(tx, idx) == BalanceAt(tx.preTokenBalances, idx)
PostOf(tx, idx) == BalanceAt(tx.postTokenBalances, idx)

\* change = post_amount - pre_amount, a side without amount counting as 0
ChangeAt(tx, idx) == UiAmount(PostOf(tx, idx)) - UiAmount(PreOf(tx, idx))

\* the asset and the owner the snapshots give for an index
MintAt(tx, idx) == OrElse(PostOf(tx, idx).mint, PreOf(tx, idx).mint)
OwnerAt(tx, idx) == OrElse(PostOf(tx, idx).owner, PreOf(tx, idx).owner)

\* the indices for which a token transfer is due: the account names its
\* asset, is owned by the target address and its amount changed
DueIndices(tx) ==
    {idx \in SnapshotIndices(tx) :
        /\ MintAt(tx, idx) # ""
        /\ OwnerAt(tx, idx) = WALLET_ADDRESS
        /\ ChangeAt(tx, idx) # 0}

\* the token transfers of a result
TokenTransfersOf(transfers) ==
    {k \in 1..Len(transfers) : transfers[k].mint # SOL_MINT}

\* C19: for a Minimal record without execution error, normalization produces
\* exactly one token transfer for each account index of the pre- or
\* post-token-balance snapshot whose owner is the target address and whose
\* change = post_amount - pre_amount is non-zero (a side missing from a
\* snapshot counts as amount 0), with signed amount equal to that change;
\* indices owned by other addresses and indices with change 0 produce nothing.
C19_OneTransferPerChangedIndex ==
    (npc = "done" /\ parser = "rpc" /\ ~result.raised
     /\ raw_tx.present /\ raw_tx.meta /\ ~raw_tx.err) =>
        /\ Cardinality(TokenTransfersOf(result.transfers))
               = Cardinality(DueIndices(raw_tx))
        /\ \A idx \in DueIndices(raw_tx) :
              Cardinality({k \in TokenTransfersOf(result.transfers) :
                              /\ result.transfers[k].mint = MintAt(raw_tx, idx)
                              /\ result.transfers[k].change
                                     = ChangeAt(raw_tx, idx)})
                  = Cardinality({j \in DueIndices(raw_tx) :
                                    /\ MintAt(raw_tx, j) = MintAt(raw_tx, idx)
                                    /\ ChangeAt(raw_tx, j)
                                           = ChangeAt(raw_tx, idx)})
        /\ \A k \in TokenTransfersOf(result.transfers) :
              /\ result.transfers[k].block_time = raw_tx.blockTime
              /\ result.transfers[k].type
                     = IF result.transfers[k].change > 0 THEN "buy" ELSE "sell"

\* a record in which the wallet's account went from 8 to 3 and gave one sell
\* of -5
C19_Witness ==
    /\ npc = "done"
    /\ parser = "rpc"
    /\ ~raw_tx.err
    /\ Len(raw_tx.preTokenBalances) = 1
    /\ Len(raw_tx.postTokenBalances) = 1
    /\ DueIndices(raw_tx) = {1}
    /\ Cardinality(TokenTransfersOf(result.transfers)) = 1
    /\ result.transfers[1].mint = "X"
    /\ result.transfers[1].change = -5
    /\ result.transfers[1].type = "sell"

-----------------------------------------------------------------------------
(* Further properties of the history fetch *)

\* the signature of the last record of the n-th page
LastSignatureOfPage(n) ==
    PageRecords(n, AnswerAt(n))[AnswerAt(n).size].signature

\* C20: cursor chaining: the first page request carries no cursor, every
\* later request carries as its `before` cursor the signature of the last
\* record of the immediately preceding page, and the accumulated ledger is
\* the pages' records in request order, with nothing dropped or reordered.
C20_CursorChaining ==
    /\ requests # <<>> => requests[1] = None
    /\ \A n \in 2..Len(requests) :
          /\ AnswerAt(n - 1).kind = "page"
          /\ AnswerAt(n - 1).size > 0
          /\ requests[n] # None
          /\ requests[n] = LastSignatureOfPage(n - 1)
    /\ fpc \in {"loop", "done"} =>
          all_transactions = PagesConcat(Len(requests))

\* a finished fetch of three pages: the third request carried the signature
\* of the hundredth record of the second page
C20_Witness ==
    /\ fpc = "done"
    /\ Len(requests) = 3
    /\ requests[2] = <<1, PAGE_LIMIT>>
    /\ requests[3] = <<2, PAGE_LIMIT>>
    /\ Len(all_transactions) = 2 * PAGE_LIMIT + 37
    /\ all_transactions[PAGE_LIMIT + 1].signature = <<2, 1>>

-----------------------------------------------------------------------------
(* A whole run: analyze_wallet_volume on the indexed-API path and on the     *)
(* public-RPC path, get_volume_data of the web server                        *)

\* pages per run on the indexed-API path
MaxRunPages == 2

\* signatures per run on the public-RPC path
MaxSignatures == 2

\* `retries: int = 3` of get_transaction
RETRIES == 3

\* `max_tx = min(100, len(signatures))`
MAX_TX == 100

\* what the indexing source may answer in a run
RunAnswers ==
    {[kind |-> "page", size |-> 1, signed |-> TRUE],
     [kind |-> "page", size |-> PAGE_LIMIT, signed |-> TRUE],
     [kind |-> "page", size |-> 0, signed |-> FALSE],
     [kind |-> "status", size |-> 0, signed |-> FALSE],
     [kind |-> "exception", size |-> 0, signed |-> FALSE]}

RunSources == SeqsUpTo(RunAnswers, MaxRunPages)

\* what a fetched record holds: the first record of a page a receipt of 10 X,
\* the hundredth a native transfer of 2,000,000 lamports out of the wallet,
\* every other record no transfer
PayloadOf(rec) ==
    IF rec.signature = None THEN EnrichedRecord(T_2D, <<>>, <<>>)
    ELSE IF rec.signature[2] = 1
    THEN EnrichedRecord(T_3H,
             <<TokenEntry("X", <<OTHER_ADDRESS, WALLET_ADDRESS>>, Num(10))>>,
             <<>>)
    ELSE IF rec.signature[2] = PAGE_LIMIT
    THEN EnrichedRecord(T_10D, <<>>,
             <<NativeEntry(<<WALLET_ADDRESS, OTHER_ADDRESS>>, Num(2000000))>>)
    ELSE EnrichedRecord(T_2D, <<>>, <<>>)

\* the fetched records with what they hold
Payloads(transactions) ==
    [i \in 1..Len(transactions) |-> PayloadOf(transactions[i])]

\* `sig_info.get("signature")` of the entries get_signatures may return
SignatureInfos == {<<"sigA">>, None}

\* the answers to getSignaturesForAddress: a list, an answer without
\* "result", a null "result", a transport or decode failure
SignaturesAnswers ==
    {[kind |-> "ok", list |-> l] : l \in SeqsUpTo(SignatureInfos, MaxSignatures)}
    \cup {[kind |-> "noresult", list |-> <<>>],
          [kind |-> "null", list |-> <<>>],
          [kind |-> "exception", list |-> <<>>]}

\* a Minimal record: the wallet's token account 1 holds `pre` before and
\* `post` after, its native balance changes by `lamports`
RpcTx(err, pre, post, lamports) ==
    [present |-> TRUE, meta |-> TRUE, err |-> err, blockTime |-> T_3H,
     preTokenBalances |-> <<BalanceEntry(Num(1), "X", WALLET_ADDRESS, pre)>>,
     postTokenBalances |-> <<BalanceEntry(Num(1), "X", WALLET_ADDRESS, post)>>,
     accountKeys |-> <<OTHER_ADDRESS, WALLET_ADDRESS>>,
     preBalances |-> <<5000000, 10000000>>,
     postBalances |-> <<5000000, 10000000 + lamports>>]

\* the transactions the RPC node may return: X from 3 to 8, a failed
\* transaction, X from 8 to 3 with 2,000,000 lamports spent, and one whose
\* amount is not a number
RpcTxs ==
    {RpcTx(FALSE, Num(3), Num(8), 0),
     RpcTx(TRUE, Num(3), Num(8), 0),
     RpcTx(FALSE, Num(8), Num(3), -2000000),
     RpcTx(FALSE, Num(3), NonNumeric, 0)}

\* the answers to one getTransaction request: a non-empty result, an error
\* response, an empty result, a transport or decode failure
AttemptAnswers ==
    {[kind |-> "result", tx |-> t] : t \in RpcTxs}
    \cup {[kind |-> k, tx |-> EmptyTx] : k \in {"error", "empty", "exception"}}

\* `signatures[:max_tx]`
Take(list, n) == SubSeq(list, 1, IF Len(list) < n THEN Len(list) ELSE n)

\* a faulty variant: one attempt more than `retries`
AttemptsLeftOneMore(next_attempt) == next_attempt <= RETRIES

\* `for attempt in range(retries)`: whether the loop has another round
AttemptsLeft(next_attempt) == next_attempt < RETRIES

\* a faulty variant: the fold starts while the signature loop is running
ReadyToFoldInLoop == "next"

\* the fold loop follows the signature loop
ReadyToFold == "done"

\* the variables neither path of a run nor its aggregation writes
notRunVars == <<normVars, priceVars>>

\* `helius_txs = get_helius_transaction_history(wallet)` has returned (CLI),
\* `transactions = get_helius_transactions()` has returned (web): the records
\* go to the parser, which has no round to run on an empty list
RunParseFetched ==
    /\ fpc = "done"
    /\ vpc = "wait"
    /\ apc = "idle"
    /\ vol_records' = Payloads(all_transactions)
    /\ vpc' = IF all_transactions = <<>> THEN "fold" ELSE "parse"
    /\ UNCHANGED <<impl, all_transfers, folded, volume_data, prices,
                   price_calls, price_requests, sorted_tokens>>
    /\ UNCHANGED <<fetchVars, rpcVars, notRunVars>>

\* one round of `for tx in transactions:` of the parser the caller uses; the
\* fold loop follows the last round
RunParseRecord ==
    /\ vpc = "parse"
    /\ parsed < Len(vol_records)
    /\ LET r == IF impl = "cli"
                THEN parse_helius_transactions(<<vol_records[parsed + 1]>>,
                                               WALLET_ADDRESS)
                ELSE parse_transfers(<<vol_records[parsed + 1]>>)
       IN  IF r.raised
           THEN vpc' = "raised" /\ UNCHANGED <<all_transfers, parsed>>
           ELSE /\ all_transfers' = all_transfers \o r.transfers
                /\ parsed' = parsed + 1
                /\ vpc' = IF parsed + 1 = Len(vol_records) THEN "fold"
                          ELSE "parse"
    /\ UNCHANGED <<impl, vol_records, folded, volume_data, prices,
                   price_calls, price_requests, sorted_tokens>>
    /\ UNCHANGED <<apc, signatures, sig_i, attempt, cur_tx, rpc_requests,
                   rpc_issued, processed, successful>>
    /\ UNCHANGED <<fetchVars, notRunVars>>

\* `signatures = get_signatures(wallet, limit=200)`, `if signatures:`,
\* `signatures = signatures[:max_tx]`; rpc_request has no handler, and
\* len() of a null result raises
RpcGetSignatures ==
    /\ apc = "signatures"
    /\ rpc_issued' = rpc_issued + 1
    /\ \E answer \in SignaturesAnswers :
           IF answer.kind \in {"exception", "null"}
           THEN apc' = "raised" /\ signatures' = <<>>
           ELSE apc' = "next" /\ signatures' = Take(answer.list, MAX_TX)
    /\ UNCHANGED <<sig_i, attempt, cur_tx, rpc_requests, parsed, processed,
                   successful>>
    /\ UNCHANGED <<fetchVars, volVars, notRunVars>>

\* `signature = sig_info.get("signature")`, `if not signature: continue`
RpcSkipUnsigned ==
    /\ apc = "next"
    /\ sig_i <= Len(signatures)
    /\ signatures[sig_i] = None
    /\ sig_i' = sig_i + 1
    /\ UNCHANGED <<apc, signatures, attempt, cur_tx, rpc_requests, rpc_issued,
                   parsed, processed, successful>>
    /\ UNCHANGED <<fetchVars, volVars, notRunVars>>

\* `tx = get_transaction(signature)` is entered
RpcCallGetTransaction ==
    /\ apc = "next"
    /\ sig_i <= Len(signatures)
    /\ signatures[sig_i] # None
    /\ apc' = "attempt"
    /\ attempt' = 0
    /\ rpc_requests' = <<>>
    /\ UNCHANGED <<signatures, sig_i, cur_tx, rpc_issued, parsed, processed,
                   successful>>
    /\ UNCHANGED <<fetchVars, volVars, notRunVars>>

\* one round of `for attempt in range(retries):`; a non-empty result returns
\* the transaction, anything else goes to the next round or, after the last
\* one, to `return {}`; back in the caller `processed += 1`, and
\* `if not tx: continue` or `successful += 1`
RpcAttempt ==
    /\ apc = "attempt"
    /\ rpc_issued' = rpc_issued + 1
    /\ \E answer \in AttemptAnswers :
           /\ rpc_requests' = Append(rpc_requests, answer)
           /\ IF answer.kind = "result"
              THEN /\ cur_tx' = answer.tx
                   /\ processed' = processed + 1
                   /\ successful' = successful + 1
                   /\ apc' = "parse"
                   /\ UNCHANGED <<attempt, sig_i>>
              ELSE IF AttemptsLeft(attempt + 1)
              THEN /\ attempt' = attempt + 1
                   /\ UNCHANGED <<apc, cur_tx, processed, successful, sig_i>>
              ELSE /\ cur_tx' = EmptyTx
                   /\ processed' = processed + 1
                   /\ sig_i' = sig_i + 1
                   /\ apc' = "next"
                   /\ UNCHANGED <<attempt, successful>>
    /\ UNCHANGED <<signatures, parsed>>
    /\ UNCHANGED <<fetchVars, volVars, notRunVars>>

\* `transfers = parse_token_transfers(tx, wallet)`,
\* `all_transfers.extend(transfers)`
RpcParse ==
    /\ apc = "parse"
    /\ LET r == parse_token_transfers(cur_tx, WALLET_ADDRESS)
       IN  IF r.raised
           THEN apc' = "raised" /\ UNCHANGED <<all_transfers, sig_i>>
           ELSE /\ all_transfers' = all_transfers \o r.transfers
                /\ sig_i' = sig_i + 1
                /\ apc' = "next"
    /\ UNCHANGED <<signatures, attempt, cur_tx, rpc_requests, rpc_issued,
                   parsed, processed, successful>>
    /\ UNCHANGED <<impl, vol_records, vpc, folded, volume_data, prices,
                   price_calls, price_requests, sorted_tokens>>
    /\ UNCHANGED <<fetchVars, notRunVars>>

\* the signature loop is over
RpcLoopEnd ==
    /\ apc = "next"
    /\ sig_i > Len(signatures)
    /\ apc' = "done"
    /\ UNCHANGED <<signatures, sig_i, attempt, cur_tx, rpc_requests, rpc_issued,
                   parsed, processed, successful>>
    /\ UNCHANGED <<fetchVars, volVars, notRunVars>>

\* `for transfer in all_transfers:` is reached on the public-RPC path
RpcStartFold ==
    /\ apc = ReadyToFold
    /\ vpc = "wait"
    /\ vpc' = "fold"
    /\ UNCHANGED <<impl, vol_records, all_transfers, folded, volume_data, prices,
                   price_calls, price_requests, sorted_tokens>>
    /\ UNCHANGED <<fetchVars, rpcVars, notRunVars>>

\* a run starts: the web server and the CLI with an API key fetch from the
\* indexing source, the CLI without a key goes to the RPC node
InitRun ==
    /\ caller \in {"cli", "web"}
    /\ HELIUS_API_KEY \in BOOLEAN
    /\ source \in RunSources
    /\ before_sig = None
    /\ all_transactions = <<>>
    /\ requests = <<>>
    /\ sleeps = <<>>
    /\ IF caller = "cli" /\ ~HELIUS_API_KEY
       THEN fpc = "idle" /\ apc = "signatures" /\ source = <<>>
       ELSE fpc = "start" /\ apc = "idle"
    /\ signatures = <<>>
    /\ sig_i = 1
    /\ attempt = 0
    /\ cur_tx = EmptyTx
    /\ rpc_requests = <<>>
    /\ rpc_issued = 0
    /\ parsed = 0
    /\ processed = 0
    /\ successful = 0
    /\ impl = caller
    /\ vol_records = <<>>
    /\ all_transfers = <<>>
    /\ vpc = "wait"
    /\ folded = 0
    /\ volume_data = <<>>
    /\ prices = <<>>
    /\ price_calls = <<>>
    /\ price_requests = <<>>
    /\ sorted_tokens = <<>>
    /\ IdleNormalize
    /\ IdlePrices

NextRun ==
    \/ HeliusNoKey
    \/ HeliusStart
    \/ HeliusStatusError
    \/ HeliusException
    \/ HeliusEmptyPage
    \/ HeliusPage
    \/ RunParseFetched
    \/ RunParseRecord
    \/ RpcGetSignatures
    \/ RpcSkipUnsigned
    \/ RpcCallGetTransaction
    \/ RpcAttempt
    \/ RpcParse
    \/ RpcLoopEnd
    \/ RpcStartFold
    \/ VolumeFold
    \/ VolumeGetPrices
    \/ VolumeUsd
    \/ PrintVolumeReport

SpecRun == InitRun /\ [][NextRun]_vars

-----------------------------------------------------------------------------
(* Retries of get_transaction *)

\* the answer to the latest request of the get_transaction call
LastAnswer(log) == log[Len(log)]

\* C24: every round of get_transaction issues one request and the call never
\* issues more than `retries` of them; no round follows a non-empty result,
\* which is returned to the caller as it came; a round that is not the last
\* and brings an error response, an empty result or an exception is followed
\* by another round; after the last such round the call returns an empty
\* record without raising, and the caller counts the signature as processed,
\* not as successful, normalizes nothing and goes on with the next signature
C24_GetTransactionRetries ==
    [][apc = "attempt" =>
          /\ Len(rpc_requests') = Len(rpc_requests) + 1
          /\ rpc_issued' = rpc_issued + 1
          /\ Len(rpc_requests') <= RETRIES
          /\ \A i \in 1..Len(rpc_requests) : rpc_requests[i].kind # "result"
          /\ apc' # "raised"
          /\ IF LastAnswer(rpc_requests').kind = "result"
             THEN /\ apc' = "parse"
                  /\ cur_tx' = LastAnswer(rpc_requests').tx
                  /\ cur_tx' # EmptyTx
                  /\ sig_i' = sig_i
                  /\ processed' = processed + 1
                  /\ successful' = successful + 1
             ELSE IF Len(rpc_requests') < RETRIES
             THEN /\ apc' = "attempt"
                  /\ sig_i' = sig_i
                  /\ processed' = processed
             ELSE /\ apc' = "next"
                  /\ cur_tx' = EmptyTx
                  /\ sig_i' = sig_i + 1
                  /\ processed' = processed + 1
                  /\ successful' = successful
                  /\ all_transfers' = all_transfers
    ]_vars

\* the first signature used up its three attempts and was skipped, the second
\* brought its transaction on the second attempt
C24_Witness ==
    /\ apc = "parse"
    /\ sig_i = 2
    /\ processed = 2
    /\ successful = 1
    /\ rpc_issued = 1 + RETRIES + 2
    /\ Len(rpc_requests) = 2
    /\ rpc_requests[1].kind = "exception"
    /\ cur_tx = RpcTx(FALSE, Num(3), Num(8), 0)

-----------------------------------------------------------------------------
(* Order of the stages of a run *)

\* the step issues a history request: a page request to the indexing source,
\* or a request to the RPC node
Fetching == requests' # requests \/ rpc_issued' # rpc_issued

\* the step normalizes a record: a round of the Helius parser, or a call of
\* parse_token_transfers
Normalizing ==
    \/ vpc = "parse" /\ (parsed' # parsed \/ vpc' = "raised")
    \/ apc = "parse" /\ apc' # "parse"

\* the step folds a transfer into its buckets
Folding == folded' # folded

\* the run goes through the RPC node
RpcPath == apc # "idle"

\* how many transactions parse_token_transfers has been called on
RpcNormalized == IF apc = "parse" THEN successful - 1 ELSE successful

\* the normalization of some record has begun
NormalizationBegun == parsed > 0 \/ RpcNormalized > 0

\* every history request of the run has been issued and answered
FetchComplete == fpc \in {"idle", "done"} /\ apc \in {"idle", "done"}

\* every fetched record has been normalized
NormalizationComplete ==
    /\ vpc \notin {"wait", "parse"}
    /\ parsed = Len(all_transactions)
    /\ RpcNormalized = successful

\* C21 as stated: on either path no history request is issued once the
\* normalization of a record has begun, and no transfer is folded before
\* every record is fetched and normalized
C21_StagesStrictlySequential ==
    [][/\ Fetching => ~NormalizationBegun
       /\ Folding => FetchComplete /\ NormalizationComplete
    ]_vars

\* C21, amended: on the indexed-API path every page request completes before
\* the first record is normalized; on the public-RPC path the signature list
\* is requested first and each transaction is normalized right after the
\* request that brought it, before the next request is issued, so requests
\* and normalizations alternate; on both paths every request and every
\* normalization completes before the first transfer is folded, and nothing
\* is fetched or normalized once the fold loop is reached
C21_StagesInSequence ==
    [][/\ (Fetching /\ ~RpcPath) => ~NormalizationBegun /\ vpc = "wait"
       /\ (Fetching /\ RpcPath) =>
              /\ RpcNormalized = successful
              /\ vpc = "wait"
              /\ (signatures # <<>> => apc = "attempt")
       /\ (Normalizing /\ RpcPath) =>
              /\ cur_tx = LastAnswer(rpc_requests).tx
              /\ RpcNormalized = successful - 1
              /\ ~Fetching
       /\ Normalizing => vpc \in {"wait", "parse"} /\ folded = 0
       /\ Folding => FetchComplete /\ NormalizationComplete
       /\ vpc \in {"fold", "usd", "done", "raised"} =>
              ~Fetching /\ ~Normalizing
    ]_vars

\* a run through the RPC node that fetched and normalized two transactions,
\* the second after the first was normalized, and has folded their transfers
C21_Witness ==
    /\ apc = "done"
    /\ successful = 2
    /\ rpc_issued >= 3
    /\ Len(all_transfers) = 3
    /\ vpc = "fold"
    /\ folded = 3

-----------------------------------------------------------------------------
(* Batches around the cap of the primary price feed                          *)

\* ids of a batch past the hundredth
MaxOverCap == 2

\* asset ids, all different
BatchMintNames ==
    <<"m001", "m002", "m003", "m004", "m005", "m006", "m007", "m008",
      "m009", "m010", "m011", "m012", "m013", "m014", "m015", "m016",
      "m017", "m018", "m019", "m020", "m021", "m022", "m023", "m024",
      "m025", "m026", "m027", "m028", "m029", "m030", "m031", "m032",
      "m033", "m034", "m035", "m036", "m037", "m038", "m039", "m040",
      "m041", "m042", "m043", "m044", "m045", "m046", "m047", "m048",
      "m049", "m050", "m051", "m052", "m053", "m054", "m055", "m056",
      "m057", "m058", "m059", "m060", "m061", "m062", "m063", "m064",
      "m065", "m066", "m067", "m068", "m069", "m070", "m071", "m072",
      "m073", "m074", "m075", "m076", "m077", "m078", "m079", "m080",
      "m081", "m082", "m083", "m084", "m085", "m086", "m087", "m088",
      "m089", "m090", "m091", "m092", "m093", "m094", "m095", "m096",
      "m097", "m098", "m099", "m100", "m101", "m102", "m103", "m104">>

\* the batch sizes: one short of the cap, the cap, and up to MaxOverCap more
BatchSizes ==
    {n \in (PRICE_BATCH_LIMIT - 1)..(PRICE_BATCH_LIMIT + MaxOverCap) :
        n <= Len(BatchMintNames)}

\* a batch of n ids
Batch(n) == SubSeq(BatchMintNames, 1, n)

\* a ledger that touches n assets, one receipt of one unit each, as the parser
\* of either aggregation hands it on
BatchTransfers(which, n) ==
    [i \in 1..n |->
        IF which = "cli"
        THEN [mint |-> BatchMintNames[i], change |-> 1, block_time |-> T_3H,
              type |-> "buy"]
        ELSE [mint |-> BatchMintNames[i], amount |-> 1, type |-> "buy",
              timestamp |-> T_3H]]

\* what the feed may answer to a request for ids of a large batch: as
\* FeedAnswers, with the entries of the first and the last id asked for
\* chosen freely and a quote for every other id asked for
BatchFeedAnswers(ids) ==
    {[kind |-> k, data |-> [m \in IdSet(ids) |-> NoInfo]] :
        k \in {"status", "exception"}}
    \cup {[kind |-> "ok",
           data |-> [m \in IdSet(ids) |->
                        IF m = ids[1] THEN a
                        ELSE IF m = ids[Len(ids)] THEN b
                        ELSE PriceInfo(Num(Quote(m)))]] :
            a \in PriceInfos(ids[1]), b \in PriceInfos(ids[Len(ids)])}

\* the same for the primary source of get_prices
BatchPrimaryAnswers(ids) ==
    {[kind |-> k, entries |-> [m \in IdSet(ids) |-> "absent"]] :
        k \in {"exception", "status", "nodata"}}
    \cup {[kind |-> "ok",
           entries |-> [m \in IdSet(ids) |->
                           IF m = ids[1] THEN a
                           ELSE IF m = ids[Len(ids)] THEN b
                           ELSE "quote"]] :
            a \in PrimaryEntries, b \in PrimaryEntries}

\* `ids = ",".join(mint_addresses)` of wallet_balance.py: every id of the list
BalanceBatchIds(mints) == mints

\* `all_mints = list(volume_data.keys())`, `prices = get_jupiter_prices(all_mints)`
\* of either aggregation, on a large batch
BatchGetPrices ==
    /\ vpc = "fold"
    /\ folded = Len(all_transfers)
    /\ LET all_mints == Keys(all_transfers, Len(all_transfers))
       IN  /\ price_calls' = Append(price_calls, all_mints)
           /\ price_requests' = price_requests \o JupiterRequests(all_mints)
           /\ \E answer \in BatchFeedAnswers(BatchIds(all_mints)) :
                  prices' = get_jupiter_prices(all_mints, answer)
    /\ vpc' = "usd"
    /\ UNCHANGED <<impl, vol_records, all_transfers, folded, volume_data,
                   sorted_tokens>>
    /\ UNCHANGED notVolVars

\* `jupiter_prices = get_jupiter_prices(mint_addresses)` of get_prices on a
\* large batch, `if jupiter_prices: return jupiter_prices`
BatchPricesPrimary ==
    /\ ppc = "primary"
    /\ \E answer \in BatchPrimaryAnswers(BalanceBatchIds(mint_addresses)) :
           LET jupiter_prices == BalanceJupiterPrices(answer)
           IN  /\ consulted' =
                      Append(consulted,
                             Consulted("primary",
                                       BalanceBatchIds(mint_addresses), answer,
                                       jupiter_prices))
               /\ IF answer.kind = "exception"
                  THEN ppc' = "raised" /\ UNCHANGED chain_result
                  ELSE IF Truthy(jupiter_prices)
                  THEN ppc' = "done" /\ chain_result' = jupiter_prices
                  ELSE ppc' = "secondary" /\ UNCHANGED chain_result
    /\ UNCHANGED <<mint_addresses, chain_prices>>
    /\ UNCHANGED notPriceVars

\* an aggregation about to fold a ledger of many assets, or get_prices called
\* with as many ids
InitBatch ==
    /\ \E n \in BatchSizes :
           \/ /\ impl \in {"cli", "web"}
              /\ all_transfers = BatchTransfers(impl, n)
              /\ vpc = "fold"
              /\ IdlePrices
           \/ /\ impl = "cli"
              /\ all_transfers = <<>>
              /\ vpc = "idle"
              /\ mint_addresses = Batch(n)
              /\ ppc = "primary"
              /\ chain_prices = <<>>
              /\ consulted = <<>>
              /\ chain_result = <<>>
    /\ vol_records = <<>>
    /\ folded = 0
    /\ volume_data = <<>>
    /\ prices = <<>>
    /\ price_calls = <<>>
    /\ price_requests = <<>>
    /\ sorted_tokens = <<>>
    /\ IdleFetch
    /\ IdleNormalize
    /\ IdleRpc

NextBatch ==
    \/ VolumeFold
    \/ BatchGetPrices
    \/ VolumeUsd
    \/ PrintVolumeReport
    \/ BatchPricesPrimary

SpecBatch == InitBatch /\ [][NextBatch]_vars

\* the first PRICE_BATCH_LIMIT ids of a batch
UnderCap(batch) ==
    [i \in 1..(IF Len(batch) < PRICE_BATCH_LIMIT THEN Len(batch)
               ELSE PRICE_BATCH_LIMIT) |-> batch[i]]

\* the ids of a batch at position 101 or later
PastCap(batch) == {batch[i] : i \in (PRICE_BATCH_LIMIT + 1)..Len(batch)}

\* the ids an answer of the feed holds a quote for
QuotedIn(answer) ==
    {m \in DOMAIN answer.data :
        answer.kind = "ok" /\ answer.data[m].usdPrice.tag # "absent"}

\* C22: a call of the primary feed's resolver sends one request, for the
\* first 100 ids of the batch; the resolved mapping holds no id at position
\* 101 or later and holds, for some answer of the feed to that request, the
\* quote of every id the answer prices; in the volume report every USD figure
\* of an id at position 101 or later is 0. For the volume aggregations and
\* for get_prices of the balance script
C22_PrimaryBatchCapped ==
    [][/\ price_requests' # price_requests =>
              LET batch == price_calls'[Len(price_calls')]
              IN  /\ price_requests' = <<UnderCap(batch)>>
                  /\ PastCap(batch) \cap DOMAIN prices' = {}
                  /\ \E answer \in BatchFeedAnswers(UnderCap(batch)) :
                         /\ DOMAIN prices' = QuotedIn(answer)
                         /\ \A m \in QuotedIn(answer) :
                                prices'[m] = answer.data[m].usdPrice
       /\ (vpc = "usd" /\ vpc' = "done") =>
              \A m \in PastCap(price_calls[1]) : \A tf \in TimeframeNames :
                  /\ volume_data'[m][tf].buy_usd = 0
                  /\ volume_data'[m][tf].sell_usd = 0
                  /\ volume_data'[m][tf].total_usd = 0
       /\ consulted' # consulted =>
              /\ Len(consulted') = 1
              /\ consulted'[1].ids = UnderCap(mint_addresses)
              /\ PastCap(mint_addresses) \cap DOMAIN consulted'[1].yield = {}
    ]_vars

-----------------------------------------------------------------------------
(* Order of presentation *)

\* the lifetime total_usd of the asset at position k of the presentation
ListedTotalUsd(k) == volume_data[sorted_tokens[k]]["lifetime"].total_usd

\* C23: in the CLI report and in the web response, of two assets listed one
\* after the other the earlier one's lifetime total_usd is at least the later
\* one's, assets without price (total_usd = 0) included
C23_DescendingByTotalUsd ==
    \A k \in 1..(Len(sorted_tokens) - 1) :
        ListedTotalUsd(k) >= ListedTotalUsd(k + 1)

=============================================================================
